---- MODULE Spec2Model ----
(***************************************************************************)
(* A model of lx (github.com/Geun-Oh/lx): the filter chain, the context    *)
(* window, the ring buffer, the rate detector and the pipeline             *)
(* orchestrator.                                                           *)
(*                                                                         *)
(* A message is modelled as the sequence of its words; a keyword or an     *)
(* exclude pattern is a sequence of words too, and strings.Contains is     *)
(* containment of a contiguous run of words.                               *)
(***************************************************************************)
EXTENDS Integers, Sequences, FiniteSets, TLC

VARIABLES
    ring,       \* buffer.Ring: entries, head, count, capacity, dropped
    ringPushed, \* history: every entry handed to Ring.Push, in order
    cb,         \* filter.ContextBuffer: filter, beforeN, afterN, ringBuf, ringPos, afterCount
    cbFed,      \* history: every entry handed to ContextBuffer.Process (as stored)
    cbOut,      \* history: concatenation of the results of Process
    cbLast,     \* history: the last call of Process (whether it matched, afterCount before, result)
    rd,         \* monitor.RateDetector: window, buckets, timestamps, threshold
    now,        \* the wall clock, in ticks
    rdLog,      \* history: one record per call of Record (its second and its result)
    rdLastAt,   \* history: the clock reading of the last call of Record
    chain,      \* filter.Chain: filters, mode
    chLast,     \* history: the last call of Chain.Match (entry before, entry after, result)
    cfg,        \* pipeline.Config: which optional parts are configured
    pc,         \* position of pipeline.Run
    ret,        \* what pipeline.Run returned
    sinks,      \* one record per registered sink: what it was called with
    stats,      \* monitor.Stats: totalLines, matchedLines
    srcSeq,     \* number of entries pipeline.Run has received from the source
    srcLog,     \* history: the entries pipeline.Run received, as the source sent them
    srcLimit,   \* number of lines the source's input holds
    gp,         \* parser.GrokParser: pattern, regex, fieldNames (or the error of NewGrokParser)
    ge,         \* the entry handed to GrokParser.Parse: msg, fields
    gLast,      \* history: the last call of Parse (its result and the entry before it)
    srcSt,      \* a started source: kind, follow, seq, ctxDone, the input, the closing goroutine
    readers,    \* the reader goroutines of the source: position, pipe contents, entry in hand
    ch,         \* the entry channel of the source: buf, closed
    recvd,      \* history: the entries received from the channel, in order
    startCalls, \* history: number of calls of Source.Start made by pipeline.Run
    detects,    \* history: number of calls of DetectLevel for the entry of the last iteration
    alerts,     \* monitor.AlertEngine: its rules (name, pattern, count)
    alLast,     \* history: the last call on the alert engine and its result
    rc,         \* the goroutines that share a buffer.Ring, and its RWMutex
    dl,         \* a message and the result of filter.DetectLevel on it
    rdLast,     \* history: the last access of the rate detector (operation, clock, result)
    tui,        \* the consumer goroutine of tui.Run and what it sent to the program
    pool,       \* buffer.Pool: the entries put back, and the last call of Get or Put
    pl,         \* a level name and the result of entry.ParseLevel on it
    model       \* tui.Model: logs, pending, scrollPos, paused, the search state

vars == <<ring, ringPushed, cb, cbFed, cbOut, cbLast, rd, now, rdLog, rdLastAt,
          chain, chLast, cfg, pc, ret, sinks, stats, srcSeq, srcLog, srcLimit,
          gp, ge, gLast, srcSt, readers, ch, recvd, startCalls, detects,
          alerts, alLast, rc, dl, rdLast, tui, pool, pl, model>>

ringVars == <<ring, ringPushed>>
ctxVars == <<cb, cbFed, cbOut, cbLast>>
rateVars == <<rd, now, rdLog, rdLastAt>>
chainVars == <<chain, chLast>>
pipeVars == <<cfg, pc, ret, sinks, stats, srcSeq, srcLog, srcLimit, startCalls, detects>>
grokVars == <<gp, ge, gLast>>
srcVars == <<srcSt, readers, ch, recvd>>
alertVars == <<alerts, alLast>>
lateVars == <<pool, pl, model>>
extVars == <<alertVars, rc, dl, rdLast, tui, lateVars>>

----------------------------------------------------------------------------
(* Bounds of the model.                                                    *)

MaxPush == 5        \* pushes into a stand-alone ring
MaxCap == 3         \* largest requested ring capacity
MaxFeed == 5        \* entries fed to a stand-alone context buffer
MaxBefore == 2      \* largest --before
MaxAfter == 2       \* largest --after
MaxFilters == 2     \* filters added to a stand-alone chain
MaxNow == 7         \* last tick of the clock
MaxRecords == 13    \* calls of RateDetector.Record
MaxLines == 3       \* entries a source produces in a pipeline run
MaxSinks == 2       \* registered sinks

Min(a, b) == IF a < b THEN a ELSE b
Max(a, b) == IF a > b THEN a ELSE b

----------------------------------------------------------------------------
(* entry.LogEntry                                                          *)

LevelUnknown == 0
LevelDebug == 1
LevelInfo == 2
LevelWarn == 3
LevelError == 4
LevelFatal == 5

\* The zero value of entry.LogEntry (what make([]entry.LogEntry, n) holds).
ZeroEntry == [seq |-> 0, msg |-> <<>>, level |-> LevelUnknown]

NewEntry(seq, msg) == [seq |-> seq, msg |-> msg, level |-> LevelUnknown]

\* The messages of the model.
LetterLines == {<<"a">>, <<"b">>, <<"c">>, <<"d">>, <<"e">>}
LogLines == {<<"ERROR", "healthcheck", "failed">>, <<"ERROR", "disk", "full">>,
             <<"healthcheck", "ok">>, <<"INFO", "disk", "ok">>}

\* strings.Contains(s, sub)
Contains(s, sub) ==
    \E i \in 1..(Len(s) - Len(sub) + 1) : SubSeq(s, i, i + Len(sub) - 1) = sub

----------------------------------------------------------------------------
(* filter.DetectLevel                                                      *)

\* levelPatterns: the keywords of each row and the row's level.
levelPatterns ==
    << [keywords |-> <<"ERROR", "ERR">>, level |-> LevelError],
       [keywords |-> <<"WARN", "WARNING">>, level |-> LevelWarn],
       [keywords |-> <<"INFO">>, level |-> LevelInfo],
       [keywords |-> <<"DEBUG", "TRACE">>, level |-> LevelDebug],
       [keywords |-> <<"FATAL", "PANIC", "CRITICAL">>, level |-> LevelFatal] >>

\* strings.ToUpper on the words of the model.
ToUpper(w) ==
    CASE w = "error" -> "ERROR"
      [] w = "warn" -> "WARN"
      [] w = "info" -> "INFO"
      [] w = "fatal" -> "FATAL"
      [] OTHER -> w

\* The words levelRegex matches (case-insensitively, between word boundaries).
levelRegexWords ==
    {"DEBUG", "TRACE", "INFO", "WARN", "WARNING", "ERR", "ERROR", "FATAL", "PANIC", "CRITICAL"}

\* levelRegex.FindString(msg): the leftmost matching word, "" when there is none.
RECURSIVE FindLevelWord(_, _)
FindLevelWord(msg, i) ==
    IF i > Len(msg) THEN ""
    ELSE IF ToUpper(msg[i]) \in levelRegexWords THEN msg[i]
    ELSE FindLevelWord(msg, i + 1)

RECURSIVE LevelOfKeyword(_, _)
LevelOfKeyword(upper, row) ==
    IF row > Len(levelPatterns) THEN LevelUnknown
    ELSE IF \E k \in 1..Len(levelPatterns[row].keywords) : levelPatterns[row].keywords[k] = upper
         THEN levelPatterns[row].level
    ELSE LevelOfKeyword(upper, row + 1)

RECURSIVE TableRowLevel(_, _)
TableRowLevel(msg, row) ==
    IF row > Len(levelPatterns) THEN LevelUnknown
    ELSE IF \E i \in 1..Len(msg), k \in 1..Len(levelPatterns[row].keywords) :
               ToUpper(msg[i]) = levelPatterns[row].keywords[k]
         THEN levelPatterns[row].level
    ELSE TableRowLevel(msg, row + 1)

DetectLevelTablePriority(msg) == TableRowLevel(msg, 1)

DetectLevel(msg) ==
    LET match == FindLevelWord(msg, 1)
    IN IF match = "" THEN LevelUnknown ELSE LevelOfKeyword(ToUpper(match), 1)

----------------------------------------------------------------------------
(* The filters: keyword, exclude, level.  A filter is a record             *)
(* [kind, pats, allowed]; matching returns the verdict and the entry as    *)
(* the filter leaves it (LevelFilter caches the detected level).           *)

KeywordFilter(kw) == [kind |-> "keyword", pats |-> <<kw>>, allowed |-> {}]
ExcludeFilter(ps) == [kind |-> "exclude", pats |-> ps, allowed |-> {}]
LevelFilter(ls) == [kind |-> "level", pats |-> <<>>, allowed |-> ls]

KeywordMatch(f, e) == Contains(e.msg, f.pats[1])

RECURSIVE ExcludeLoop(_, _, _)
ExcludeLoop(pats, e, i) ==
    IF i > Len(pats) THEN TRUE
    ELSE IF Contains(e.msg, pats[i]) THEN FALSE
    ELSE ExcludeLoop(pats, e, i + 1)

ExcludeMatch(f, e) == ExcludeLoop(f.pats, e, 1)

LevelMatch(f, e) ==
    LET level == IF e.level = LevelUnknown THEN DetectLevel(e.msg) ELSE e.level
    IN [ok |-> level \in f.allowed, e |-> [e EXCEPT !.level = level]]

FilterMatch(f, e) ==
    CASE f.kind = "keyword" -> [ok |-> KeywordMatch(f, e), e |-> e]
      [] f.kind = "exclude" -> [ok |-> ExcludeMatch(f, e), e |-> e]
      [] OTHER -> LevelMatch(f, e)

----------------------------------------------------------------------------
(* filter.Chain                                                            *)

MatchAny == 0
MatchAll == 1

NewChain(mode) == [filters |-> <<>>, mode |-> mode]

ChainAdd(c, f) == [c EXCEPT !.filters = Append(@, f)]

ChainLen(c) == Len(c.filters)

\* The MatchAll loop: false at the first filter that does not match.
RECURSIVE MatchAllLoop(_, _, _)
MatchAllLoop(fs, e, i) ==
    IF i > Len(fs) THEN [ok |-> TRUE, e |-> e]
    ELSE LET r == FilterMatch(fs[i], e)
         IN IF ~r.ok THEN [ok |-> FALSE, e |-> r.e]
            ELSE MatchAllLoop(fs, r.e, i + 1)

\* The MatchAny loop: true at the first filter that matches.
RECURSIVE MatchAnyLoop(_, _, _)
MatchAnyLoop(fs, e, i) ==
    IF i > Len(fs) THEN [ok |-> FALSE, e |-> e]
    ELSE LET r == FilterMatch(fs[i], e)
         IN IF r.ok THEN [ok |-> TRUE, e |-> r.e]
            ELSE MatchAnyLoop(fs, r.e, i + 1)

ChainMatchAnyAsAll(c, e) ==
    IF Len(c.filters) = 0 THEN [ok |-> TRUE, e |-> e]
    ELSE MatchAllLoop(c.filters, e, 1)

ChainMatchEmptyRejects(c, e) ==
    IF c.mode = MatchAll THEN MatchAllLoop(c.filters, e, 1)
    ELSE MatchAnyLoop(c.filters, e, 1)

ChainMatch(c, e) ==
    IF Len(c.filters) = 0 THEN [ok |-> TRUE, e |-> e]
    ELSE IF c.mode = MatchAll THEN MatchAllLoop(c.filters, e, 1)
    ELSE MatchAnyLoop(c.filters, e, 1)

----------------------------------------------------------------------------
(* buffer.Ring                                                             *)

DefaultCapacity == 1024

NewRing(capacity) ==
    LET c == IF capacity <= 0 THEN DefaultCapacity ELSE capacity
    IN [entries |-> [i \in 0..(c - 1) |-> ZeroEntry],
        head |-> 0, count |-> 0, capacity |-> c, dropped |-> 0]

PushAlwaysDrops(r, e) ==
    LET r1 == [r EXCEPT !.entries[r.head] = e, !.head = (r.head + 1) % r.capacity]
    IN IF r.count < r.capacity THEN [r1 EXCEPT !.count = @ + 1, !.dropped = @ + 1]
       ELSE [r1 EXCEPT !.dropped = @ + 1]

\* dropped is a uint64; the model never pushes often enough to wrap it.
Push(r, e) ==
    LET r1 == [r EXCEPT !.entries[r.head] = e, !.head = (r.head + 1) % r.capacity]
    IN IF r.count < r.capacity THEN [r1 EXCEPT !.count = @ + 1]
       ELSE [r1 EXCEPT !.dropped = @ + 1]

SnapshotNoRotate(r) == [i \in 1..r.count |-> r.entries[i - 1]]

Snapshot(r) ==
    IF r.count < r.capacity
    THEN [i \in 1..r.count |-> r.entries[i - 1]]
    ELSE LET start == r.head % r.capacity
             n == r.capacity - start
         IN [i \in 1..r.count |->
                IF i <= n THEN r.entries[start + i - 1] ELSE r.entries[i - n - 1]]

RingLen(r) == r.count

Dropped(r) == r.dropped

----------------------------------------------------------------------------
(* filter.ContextBuffer                                                    *)

NewContextBuffer(f, before, after) ==
    LET size == IF before + 1 < 1 THEN 1 ELSE before + 1
    IN [filter |-> f, beforeN |-> before, afterN |-> after,
        ringBuf |-> [i \in 0..(size - 1) |-> ZeroEntry],
        ringPos |-> 0, afterCount |-> 0]

BufLen(c) == Cardinality(DOMAIN c.ringBuf)

\* The "before" loop of Process: ringBuf[i % len] for i = start .. ringPos-2.
BeforeLines(buf, len, start, pos) ==
    IF pos - 1 - start <= 0 THEN <<>>
    ELSE [k \in 1..(pos - 1 - start) |-> buf[(start + k - 1) % len]]

ProcessStartOffByOne(c, e) ==
    LET m == ChainMatch(c.filter, e)
        len == BufLen(c)
        buf == [c.ringBuf EXCEPT ![c.ringPos % len] = m.e]
        pos == c.ringPos + 1
        start == IF pos - c.beforeN < 0 THEN 0 ELSE pos - c.beforeN
    IN IF m.ok
       THEN [cb |-> [c EXCEPT !.ringBuf = buf, !.ringPos = pos, !.afterCount = c.afterN],
             e |-> m.e, isMatch |-> TRUE,
             result |-> BeforeLines(buf, len, start, pos) \o <<m.e>>]
       ELSE IF c.afterCount > 0
       THEN [cb |-> [c EXCEPT !.ringBuf = buf, !.ringPos = pos, !.afterCount = @ - 1],
             e |-> m.e, isMatch |-> FALSE, result |-> <<m.e>>]
       ELSE [cb |-> [c EXCEPT !.ringBuf = buf, !.ringPos = pos],
             e |-> m.e, isMatch |-> FALSE, result |-> <<>>]

ProcessNoDecrement(c, e) ==
    LET m == ChainMatch(c.filter, e)
        len == BufLen(c)
        buf == [c.ringBuf EXCEPT ![c.ringPos % len] = m.e]
        pos == c.ringPos + 1
        start == IF pos - c.beforeN - 1 < 0 THEN 0 ELSE pos - c.beforeN - 1
    IN IF m.ok
       THEN [cb |-> [c EXCEPT !.ringBuf = buf, !.ringPos = pos, !.afterCount = c.afterN],
             e |-> m.e, isMatch |-> TRUE,
             result |-> BeforeLines(buf, len, start, pos) \o <<m.e>>]
       ELSE IF c.afterCount > 0
       THEN [cb |-> [c EXCEPT !.ringBuf = buf, !.ringPos = pos],
             e |-> m.e, isMatch |-> FALSE, result |-> <<m.e>>]
       ELSE [cb |-> [c EXCEPT !.ringBuf = buf, !.ringPos = pos],
             e |-> m.e, isMatch |-> FALSE, result |-> <<>>]

ProcessAddsAfter(c, e) ==
    LET m == ChainMatch(c.filter, e)
        len == BufLen(c)
        buf == [c.ringBuf EXCEPT ![c.ringPos % len] = m.e]
        pos == c.ringPos + 1
        start == IF pos - c.beforeN - 1 < 0 THEN 0 ELSE pos - c.beforeN - 1
    IN IF m.ok
       THEN [cb |-> [c EXCEPT !.ringBuf = buf, !.ringPos = pos,
                              !.afterCount = @ + c.afterN],
             e |-> m.e, isMatch |-> TRUE,
             result |-> BeforeLines(buf, len, start, pos) \o <<m.e>>]
       ELSE IF c.afterCount > 0
       THEN [cb |-> [c EXCEPT !.ringBuf = buf, !.ringPos = pos, !.afterCount = @ - 1],
             e |-> m.e, isMatch |-> FALSE, result |-> <<m.e>>]
       ELSE [cb |-> [c EXCEPT !.ringBuf = buf, !.ringPos = pos],
             e |-> m.e, isMatch |-> FALSE, result |-> <<>>]

\* Process(e): the buffer after the call, the entry as the filter left it,
\* whether it matched, and the entries returned (<<>> for nil).
Process(c, e) ==
    LET m == ChainMatch(c.filter, e)
        len == BufLen(c)
        buf == [c.ringBuf EXCEPT ![c.ringPos % len] = m.e]
        pos == c.ringPos + 1
        start == IF pos - c.beforeN - 1 < 0 THEN 0 ELSE pos - c.beforeN - 1
    IN IF m.ok
       THEN [cb |-> [c EXCEPT !.ringBuf = buf, !.ringPos = pos, !.afterCount = c.afterN],
             e |-> m.e, isMatch |-> TRUE,
             result |-> BeforeLines(buf, len, start, pos) \o <<m.e>>]
       ELSE IF c.afterCount > 0
       THEN [cb |-> [c EXCEPT !.ringBuf = buf, !.ringPos = pos, !.afterCount = @ - 1],
             e |-> m.e, isMatch |-> FALSE, result |-> <<m.e>>]
       ELSE [cb |-> [c EXCEPT !.ringBuf = buf, !.ringPos = pos],
             e |-> m.e, isMatch |-> FALSE, result |-> <<>>]

----------------------------------------------------------------------------
(* monitor.RateDetector.  Time is counted in ticks, Second ticks to the    *)
(* second; the threshold is a whole number, and latest > avg*threshold is  *)
(* compared exactly as latest*(n-1) > sum*threshold.                       *)

Second == 2

DefaultWindow == 10 * Second

DefaultThreshold == 3

NewRateDetector(window, threshold) ==
    [window |-> IF window < Second THEN DefaultWindow ELSE window,
     threshold |-> IF threshold <= 0 THEN DefaultThreshold ELSE threshold,
     buckets |-> <<>>, timestamps |-> <<>>]

\* time.Truncate(time.Second)
Truncate(t) == t - (t % Second)

RECURSIVE PruneIndex(_, _, _)
PruneIndex(ts, cutoff, i) ==
    IF i < Len(ts) /\ ts[i + 1] < cutoff THEN PruneIndex(ts, cutoff, i + 1) ELSE i

pruneKeepsAll(r, t) == r

prune(r, t) ==
    LET cutoff == t - r.window
        i == PruneIndex(r.timestamps, cutoff, 0)
    IN IF i > 0
       THEN [r EXCEPT !.buckets = SubSeq(@, i + 1, Len(@)),
                      !.timestamps = SubSeq(@, i + 1, Len(@))]
       ELSE r

RECURSIVE SumUpTo(_, _)
SumUpTo(b, n) == IF n <= 0 THEN 0 ELSE b[n] + SumUpTo(b, n - 1)

isSpikingAtLeast(r) ==
    IF Len(r.buckets) < 3 THEN FALSE
    ELSE LET sum == SumUpTo(r.buckets, Len(r.buckets) - 1)
             latest == r.buckets[Len(r.buckets)]
         IN IF sum = 0 THEN FALSE
            ELSE latest * (Len(r.buckets) - 1) >= sum * r.threshold

isSpiking(r) ==
    IF Len(r.buckets) < 3 THEN FALSE
    ELSE LET sum == SumUpTo(r.buckets, Len(r.buckets) - 1)
             latest == r.buckets[Len(r.buckets)]
         IN IF sum = 0 THEN FALSE
            ELSE latest * (Len(r.buckets) - 1) > sum * r.threshold

\* Record at clock reading t: the detector after the call and the result.
Record(r, t) ==
    LET r1 == prune(r, t)
        truncated == Truncate(t)
        n == Len(r1.timestamps)
        r2 == IF n > 0 /\ r1.timestamps[n] = truncated
              THEN [r1 EXCEPT !.buckets[n] = @ + 1]
              ELSE [r1 EXCEPT !.buckets = Append(@, 1),
                              !.timestamps = Append(@, truncated)]
    IN [rd |-> r2, spike |-> isSpiking(r2)]

\* CurrentRate at clock reading t: the detector after the call and the
\* result float64(total) / window.Seconds() as the fraction num / den.
CurrentRate(r, t) ==
    LET r1 == prune(r, t)
    IN [rd |-> r1,
        rate |-> IF Len(r1.buckets) = 0 THEN [num |-> 0, den |-> 1]
                 ELSE [num |-> SumUpTo(r1.buckets, Len(r1.buckets)) * Second,
                       den |-> r1.window]]

LatestSecondRateOfLastBucket(r, t) ==
    IF Len(r.buckets) = 0 THEN 0 ELSE r.buckets[Len(r.buckets)]

\* RateDetector.LatestSecondRate at clock reading t: the detector is only read.
LatestSecondRate(r, t) ==
    IF Len(r.buckets) = 0 THEN 0
    ELSE IF Truncate(t) = r.timestamps[Len(r.timestamps)] THEN r.buckets[Len(r.buckets)]
    ELSE 0

----------------------------------------------------------------------------
(* The states in which a component is not in use.                          *)

RingIdle == ring = NewRing(1) /\ ringPushed = <<>>

CtxIdle ==
    /\ cb = NewContextBuffer(NewChain(MatchAny), 0, 0)
    /\ cbFed = <<>>
    /\ cbOut = <<>>
    /\ cbLast = [isMatch |-> FALSE, afterBefore |-> 0, result |-> <<>>]

RateIdle ==
    /\ rd = NewRateDetector(0, 0)
    /\ now = 0
    /\ rdLog = <<>>
    /\ rdLastAt = 0

ChainIdle ==
    /\ chain = NewChain(MatchAny)
    /\ chLast = [called |-> FALSE, chain |-> NewChain(MatchAny), e |-> ZeroEntry,
                 out |-> ZeroEntry, ok |-> FALSE]

PipeIdle ==
    /\ cfg = [hasSource |-> FALSE, startFails |-> FALSE, hasFilters |-> FALSE,
              hasContext |-> FALSE, hasRing |-> FALSE]
    /\ pc = "idle"
    /\ ret = [err |-> "nil", sink |-> 0]
    /\ sinks = <<>>
    /\ stats = [totalLines |-> 0, matchedLines |-> 0]
    /\ srcSeq = 0
    /\ srcLog = <<>>
    /\ srcLimit = 0
    /\ startCalls = 0
    /\ detects = 0

GrokIdle ==
    /\ gp = [pattern |-> <<>>, regex |-> <<>>, fieldNames |-> <<>>, err |-> "none"]
    /\ ge = [msg |-> <<>>, fields |-> [nil |-> TRUE, m |-> <<>>]]
    /\ gLast = [called |-> FALSE, ok |-> FALSE,
                before |-> [msg |-> <<>>, fields |-> [nil |-> TRUE, m |-> <<>>]]]

AlertIdle ==
    /\ alerts = <<>>
    /\ alLast = [op |-> "none", calls |-> 0, msg |-> <<>>, result |-> <<>>, total |-> 0]

ConcIdle ==
    rc = [locked |-> FALSE, rlocks |-> 0, writer |-> [pc |-> "idle", e |-> ZeroEntry],
          readers |-> <<>>]

LevelIdle == dl = [msg |-> <<>>, called |-> FALSE, level |-> 0]

AccessIdle == rdLast = [op |-> "none", at |-> 0, result |-> 0]

TuiIdle == tui = [pc |-> "none"]

PoolIdle == pool = [items |-> <<>>, op |-> "none"]

ParseIdle == pl = [s |-> <<>>, called |-> FALSE, level |-> 0]

ModelIdle == model = [pc |-> "none"]

LateIdle == PoolIdle /\ ParseIdle /\ ModelIdle

ExtIdle == AlertIdle /\ ConcIdle /\ LevelIdle /\ AccessIdle /\ TuiIdle /\ LateIdle

SrcIdle ==
    /\ srcSt = [kind |-> "none", follow |-> FALSE, seq |-> 0, ctxDone |-> FALSE,
                produced |-> 0, procExited |-> FALSE, wg |-> 0, dones |-> 0,
                closer |-> "none", panicked |-> FALSE,
                frag |-> <<>>, writing |-> <<>>, split |-> FALSE, scanEOF |-> FALSE,
                fileLines |-> <<>>]
    /\ readers = <<>>
    /\ ch = [buf |-> <<>>, closed |-> FALSE]
    /\ recvd = <<>>

----------------------------------------------------------------------------
(* The ring buffer on its own: any capacity, any sequence of pushes.       *)

RingEntries == {NewEntry(0, m) : m \in {<<"a">>, <<"b">>, <<"c">>}}

InitRing ==
    /\ \E capacity \in 0..MaxCap : ring = NewRing(capacity)
    /\ ringPushed = <<>>
    /\ CtxIdle /\ RateIdle /\ ChainIdle /\ PipeIdle /\ GrokIdle /\ SrcIdle /\ ExtIdle

RingPush ==
    /\ Len(ringPushed) < MaxPush
    /\ \E e \in RingEntries :
        /\ ring' = Push(ring, e)
        /\ ringPushed' = Append(ringPushed, e)
    /\ UNCHANGED <<ctxVars, rateVars, chainVars, pipeVars, grokVars, srcVars, extVars>>

NextRing == RingPush

SpecRing == InitRing /\ [][NextRing]_vars

----------------------------------------------------------------------------
(* The context buffer on its own: any before/after, any sequence of lines. *)

CtxChains ==
    { ChainAdd(NewChain(MatchAny), KeywordFilter(<<"c">>)),
      ChainAdd(ChainAdd(NewChain(MatchAny), KeywordFilter(<<"c">>)), KeywordFilter(<<"e">>)) }

InitCtx ==
    /\ \E f \in CtxChains, before \in -1..MaxBefore, after \in -1..MaxAfter :
          cb = NewContextBuffer(f, before, after)
    /\ cbFed = <<>>
    /\ cbOut = <<>>
    /\ cbLast = [isMatch |-> FALSE, afterBefore |-> 0, result |-> <<>>]
    /\ RingIdle /\ RateIdle /\ ChainIdle /\ PipeIdle /\ GrokIdle /\ SrcIdle /\ ExtIdle

CtxProcess ==
    /\ Len(cbFed) < MaxFeed
    /\ \E msg \in LetterLines :
        LET p == Process(cb, NewEntry(Len(cbFed) + 1, msg))
        IN /\ cb' = p.cb
           /\ cbFed' = Append(cbFed, p.e)
           /\ cbOut' = cbOut \o p.result
           /\ cbLast' = [isMatch |-> p.isMatch, afterBefore |-> cb.afterCount,
                         result |-> p.result]
    /\ UNCHANGED <<ringVars, rateVars, chainVars, pipeVars, grokVars, srcVars, extVars>>

NextCtx == CtxProcess

SpecCtx == InitCtx /\ [][NextCtx]_vars

----------------------------------------------------------------------------
(* The rate detector on its own: the clock ticks, events are recorded.     *)

RateWindows == {0, 2 * Second, 4 * Second}
RateThresholds == {0, 2, 3}

InitRate ==
    /\ \E window \in RateWindows, threshold \in RateThresholds :
          rd = NewRateDetector(window, threshold)
    /\ now = 0
    /\ rdLog = <<>>
    /\ rdLastAt = 0
    /\ RingIdle /\ CtxIdle /\ ChainIdle /\ PipeIdle /\ GrokIdle /\ SrcIdle /\ ExtIdle

Tick ==
    /\ now < MaxNow
    /\ now' = now + 1
    /\ UNCHANGED <<rd, rdLog, rdLastAt, ringVars, ctxVars, chainVars, pipeVars, grokVars, srcVars, extVars>>

RateRecord ==
    /\ Len(rdLog) < MaxRecords
    /\ LET r == Record(rd, now)
       IN /\ rd' = r.rd
          /\ rdLog' = Append(rdLog, [sec |-> Truncate(now), spike |-> r.spike])
          /\ rdLastAt' = now
    /\ UNCHANGED <<now, ringVars, ctxVars, chainVars, pipeVars, grokVars, srcVars, extVars>>

NextRate == Tick \/ RateRecord

SpecRate == InitRate /\ [][NextRate]_vars

----------------------------------------------------------------------------
(* The filter chain on its own: filters are added, entries are matched.    *)

ErrorHealthcheckFailed == <<"ERROR", "healthcheck", "failed">>
ErrorDiskFull == <<"ERROR", "disk", "full">>

ChainFilters ==
    { KeywordFilter(<<"ERROR">>), KeywordFilter(<<"disk", "full">>),
      ExcludeFilter(<< <<"healthcheck">> >>), LevelFilter({LevelInfo}) }

InitChain ==
    /\ \E mode \in {MatchAny, MatchAll} : chain = NewChain(mode)
    /\ chLast = [called |-> FALSE, chain |-> NewChain(MatchAny), e |-> ZeroEntry,
                 out |-> ZeroEntry, ok |-> FALSE]
    /\ RingIdle /\ CtxIdle /\ RateIdle /\ PipeIdle /\ GrokIdle /\ SrcIdle /\ ExtIdle

ChainAddFilter ==
    /\ ChainLen(chain) < MaxFilters
    /\ \E f \in ChainFilters : chain' = ChainAdd(chain, f)
    /\ UNCHANGED <<chLast, ringVars, ctxVars, rateVars, pipeVars, grokVars, srcVars, extVars>>

ChainMatchEntry ==
    /\ \E msg \in LogLines :
        LET e == NewEntry(1, msg)
            m == ChainMatch(chain, e)
        IN chLast' = [called |-> TRUE, chain |-> chain, e |-> e, out |-> m.e, ok |-> m.ok]
    /\ UNCHANGED <<chain, ringVars, ctxVars, rateVars, pipeVars, grokVars, srcVars, extVars>>

NextChain == ChainAddFilter \/ ChainMatchEntry

SpecChain == InitChain /\ [][NextChain]_vars

----------------------------------------------------------------------------
(* pipeline.Run.  The source is the channel Run ranges over: it hands over *)
(* one entry at a time and closes at any moment (its input is exhausted or *)
(* the context is cancelled).  A sink is known by what Run called it with; *)
(* every call of Write, Flush or Close may return an error.                *)

NoError == [err |-> "nil", sink |-> 0]
Error(kind, s) == [err |-> kind, sink |-> s]

NewSink == [written |-> <<>>, writeFailed |-> FALSE, flushes |-> 0, closes |-> 0,
            flushFailed |-> FALSE, closeFailed |-> FALSE]

RecordLine(st) == [st EXCEPT !.totalLines = @ + 1]

RecordMatches(st, n) == [st EXCEPT !.matchedLines = @ + n]

WriteAllPrepends(ss, entries) ==
    [t \in 1..Len(ss) |-> [ss[t] EXCEPT !.written = entries \o @]]

\* Every sink wrote every entry.
WriteAll(ss, entries) ==
    [t \in 1..Len(ss) |-> [ss[t] EXCEPT !.written = @ \o entries]]

WriteUntilSkipsFailed(ss, entries, i, s) ==
    [t \in 1..Len(ss) |->
        IF t = s THEN [ss[t] EXCEPT !.written = @ \o SubSeq(entries, 1, i - 1),
                                    !.writeFailed = TRUE]
        ELSE [ss[t] EXCEPT !.written = @ \o SubSeq(entries, 1, i)]]

\* The write of entries[i] to sink s failed: the sinks before s hold
\* entries[1..i], sink s and the sinks after it hold entries[1..i-1].
WriteUntil(ss, entries, i, s) ==
    [t \in 1..Len(ss) |->
        IF t < s THEN [ss[t] EXCEPT !.written = @ \o SubSeq(entries, 1, i)]
        ELSE IF t = s THEN [ss[t] EXCEPT !.written = @ \o SubSeq(entries, 1, i - 1),
                                         !.writeFailed = TRUE]
        ELSE [ss[t] EXCEPT !.written = @ \o SubSeq(entries, 1, i - 1)]]

\* The loop "for _, s := range cfg.Sinks { _ = s.Flush(); _ = s.Close() }":
\* ff[t] and cf[t] tell whether sink t's Flush and Close returned an error.
FlushAndClose(ss, ff, cf) ==
    [t \in 1..Len(ss) |->
        [ss[t] EXCEPT !.flushes = @ + 1, !.closes = @ + 1,
                      !.flushFailed = ff[t], !.closeFailed = cf[t]]]

PipeLines == LogLines

PipeChains ==
    { NewChain(MatchAny),
      NewChain(MatchAll),
      ChainAdd(NewChain(MatchAny), KeywordFilter(<<"ERROR">>)),
      ChainAdd(ChainAdd(NewChain(MatchAll), KeywordFilter(<<"ERROR">>)),
               ExcludeFilter(<< <<"healthcheck">> >>)),
      ChainAdd(ChainAdd(NewChain(MatchAny), KeywordFilter(<<"ERROR">>)),
               ExcludeFilter(<< <<"healthcheck">> >>)),
      ChainAdd(ChainAdd(NewChain(MatchAny), LevelFilter({LevelError})),
               LevelFilter({LevelInfo, LevelWarn})) }

PipeContexts == {<<1, 1>>}

PipeRingCapacity == 2

Init ==
    /\ cfg \in [hasSource : BOOLEAN, startFails : BOOLEAN, hasFilters : BOOLEAN,
                hasContext : BOOLEAN, hasRing : BOOLEAN]
    /\ pc = "idle"
    /\ ret = NoError
    /\ \E n \in 0..MaxSinks : sinks = [t \in 1..n |-> NewSink]
    /\ stats = [totalLines |-> 0, matchedLines |-> 0]
    /\ srcSeq = 0
    /\ srcLog = <<>>
    /\ srcLimit = MaxLines
    /\ startCalls = 0
    /\ detects = 0
    /\ chain \in PipeChains
    /\ chLast = [called |-> FALSE, chain |-> NewChain(MatchAny), e |-> ZeroEntry,
                 out |-> ZeroEntry, ok |-> FALSE]
    /\ \E ba \in PipeContexts : cb = NewContextBuffer(chain, ba[1], ba[2])
    /\ cbFed = <<>>
    /\ cbOut = <<>>
    /\ cbLast = [isMatch |-> FALSE, afterBefore |-> 0, result |-> <<>>]
    /\ ring = NewRing(PipeRingCapacity)
    /\ ringPushed = <<>>
    /\ RateIdle /\ GrokIdle /\ SrcIdle /\ ExtIdle

RunBeginStartsFirst ==
    /\ pc = "idle"
    /\ IF ~cfg.hasSource
       THEN pc' = "done" /\ ret' = Error("source", 0)
       ELSE IF cfg.startFails
       THEN pc' = "done" /\ ret' = Error("start", 0)
       ELSE IF Len(sinks) = 0
       THEN pc' = "done" /\ ret' = Error("sinks", 0)
       ELSE pc' = "streaming" /\ ret' = ret
    /\ startCalls' = IF cfg.hasSource THEN startCalls + 1 ELSE startCalls
    /\ UNCHANGED <<cfg, sinks, stats, srcSeq, srcLog, srcLimit, detects, ringVars, ctxVars,
                   rateVars, chainVars, grokVars, srcVars, extVars>>

\* Run up to the start of the source (the checks of cfg and Source.Start).
RunBegin ==
    /\ pc = "idle"
    /\ IF ~cfg.hasSource
       THEN pc' = "done" /\ ret' = Error("source", 0)
       ELSE IF Len(sinks) = 0
       THEN pc' = "done" /\ ret' = Error("sinks", 0)
       ELSE IF cfg.startFails
       THEN pc' = "done" /\ ret' = Error("start", 0)
       ELSE pc' = "streaming" /\ ret' = ret
    /\ startCalls' = IF cfg.hasSource /\ Len(sinks) > 0 THEN startCalls + 1 ELSE startCalls
    /\ UNCHANGED <<cfg, sinks, stats, srcSeq, srcLog, srcLimit, detects, ringVars, ctxVars,
                   rateVars, chainVars, grokVars, srcVars, extVars>>

\* The writes of one iteration: every entry to every sink in turn; the
\* fail-th write returns an error (none when fail = 0) and Run returns it.
Deliver(entries, fail) ==
    LET n == Len(sinks)
        i == ((fail - 1) \div n) + 1
        s == ((fail - 1) % n) + 1
    IN IF fail = 0
       THEN /\ sinks' = WriteAll(sinks, entries)
            /\ stats' = RecordMatches(RecordLine(stats), Len(entries))
            /\ pc' = pc
            /\ ret' = ret
       ELSE /\ sinks' = WriteUntil(sinks, entries, i, s)
            /\ stats' = RecordMatches(RecordLine(stats), i)
            /\ pc' = "done"
            /\ ret' = Error("write", s)

\* The number of calls of DetectLevel that LevelFilter.Match makes on e.
FilterDetects(f, e) == IF f.kind = "level" /\ e.level = LevelUnknown THEN 1 ELSE 0

\* The number of calls of DetectLevel during Chain.Match, which stops at the
\* first predicate that decides the verdict.
RECURSIVE MatchAllDetects(_, _, _)
MatchAllDetects(fs, e, i) ==
    IF i > Len(fs) THEN 0
    ELSE LET m == FilterMatch(fs[i], e)
         IN FilterDetects(fs[i], e) +
            (IF ~m.ok THEN 0 ELSE MatchAllDetects(fs, m.e, i + 1))

RECURSIVE MatchAnyDetects(_, _, _)
MatchAnyDetects(fs, e, i) ==
    IF i > Len(fs) THEN 0
    ELSE LET m == FilterMatch(fs[i], e)
         IN FilterDetects(fs[i], e) +
            (IF m.ok THEN 0 ELSE MatchAnyDetects(fs, m.e, i + 1))

ChainDetects(c, e) ==
    IF c.mode = MatchAll THEN MatchAllDetects(c.filters, e, 1)
    ELSE MatchAnyDetects(c.filters, e, 1)

\* The record of a call of Chain.Match.
MatchCall(c, e, m) == [called |-> TRUE, chain |-> c, e |-> e, out |-> m.e, ok |-> m.ok]

\* The body of "for e := range ch" for the received entry e0.
RunIterOn(e0) ==
    /\ pc = "streaming"
    /\ srcSeq' = srcSeq + 1
    /\ srcLog' = Append(srcLog, e0)
    /\ LET e == IF e0.level = LevelUnknown
                THEN [e0 EXCEPT !.level = DetectLevel(e0.msg)] ELSE e0
       IN /\ IF cfg.hasRing
             THEN ring' = Push(ring, e) /\ ringPushed' = Append(ringPushed, e)
             ELSE UNCHANGED ringVars
          /\ detects' = (IF e0.level = LevelUnknown THEN 1 ELSE 0) +
                        (IF cfg.hasContext THEN ChainDetects(cb.filter, e)
                         ELSE IF cfg.hasFilters /\ ChainLen(chain) > 0
                         THEN ChainDetects(chain, e)
                         ELSE 0)
          /\ IF cfg.hasContext
             THEN LET p == Process(cb, e)
                  IN /\ cb' = p.cb
                     /\ cbFed' = Append(cbFed, p.e)
                     /\ cbOut' = cbOut \o p.result
                     /\ cbLast' = [isMatch |-> p.isMatch, afterBefore |-> cb.afterCount,
                                   result |-> p.result]
                     /\ chLast' = MatchCall(cb.filter, e, ChainMatch(cb.filter, e))
                     /\ \E fail \in 0..(Len(p.result) * Len(sinks)) :
                           Deliver(p.result, fail)
             ELSE /\ UNCHANGED ctxVars
                  /\ IF cfg.hasFilters /\ ChainLen(chain) > 0
                     THEN LET m == ChainMatch(chain, e)
                          IN /\ chLast' = MatchCall(chain, e, m)
                             /\ IF ~m.ok
                                THEN /\ stats' = RecordLine(stats)
                                     /\ UNCHANGED <<sinks, pc, ret>>
                                ELSE \E fail \in 0..Len(sinks) : Deliver(<<m.e>>, fail)
                     ELSE /\ chLast' = chLast
                          /\ \E fail \in 0..Len(sinks) : Deliver(<<e>>, fail)
    /\ UNCHANGED <<cfg, srcLimit, startCalls, rateVars, chain, grokVars>>

\* One iteration of "for e := range ch": the source hands over its next line.
RunIter ==
    /\ srcSeq < srcLimit
    /\ \E msg \in PipeLines : RunIterOn(NewEntry(srcSeq + 1, msg))
    /\ UNCHANGED <<srcVars, extVars>>

\* The channel is closed: flush and close every sink, then return nil.
\* (With ShowStats the summary is printed first; that changes no state.)
RunDrain ==
    /\ pc = "streaming"
    /\ \E ff \in [1..Len(sinks) -> BOOLEAN], cf \in [1..Len(sinks) -> BOOLEAN] :
          sinks' = FlushAndClose(sinks, ff, cf)
    /\ pc' = "done"
    /\ ret' = NoError
    /\ UNCHANGED <<cfg, stats, srcSeq, srcLog, srcLimit, startCalls, detects, ringVars,
                   ctxVars, rateVars,
                   chainVars, grokVars, srcVars, extVars>>

Next == RunBegin \/ RunIter \/ RunDrain

Spec == Init /\ [][Next]_vars

\* pipeline.Run on a source of up to MaxPlainLines lines, with a filter chain
\* and no context window (the plain branch of the loop).
MaxPlainLines == 5

InitPlain ==
    /\ cfg = [hasSource |-> TRUE, startFails |-> FALSE, hasFilters |-> TRUE,
              hasContext |-> FALSE, hasRing |-> FALSE]
    /\ pc = "idle"
    /\ ret = NoError
    /\ \E n \in 1..MaxSinks : sinks = [t \in 1..n |-> NewSink]
    /\ stats = [totalLines |-> 0, matchedLines |-> 0]
    /\ srcSeq = 0
    /\ srcLog = <<>>
    /\ srcLimit = MaxPlainLines
    /\ startCalls = 0
    /\ detects = 0
    /\ chain \in PipeChains
    /\ chLast = [called |-> FALSE, chain |-> NewChain(MatchAny), e |-> ZeroEntry,
                 out |-> ZeroEntry, ok |-> FALSE]
    /\ cb = NewContextBuffer(chain, 0, 0)
    /\ cbFed = <<>>
    /\ cbOut = <<>>
    /\ cbLast = [isMatch |-> FALSE, afterBefore |-> 0, result |-> <<>>]
    /\ ring = NewRing(PipeRingCapacity)
    /\ ringPushed = <<>>
    /\ RateIdle /\ GrokIdle /\ SrcIdle /\ ExtIdle

NextPlain == RunBegin \/ RunIter \/ RunDrain

SpecPlain == InitPlain /\ [][NextPlain]_vars

----------------------------------------------------------------------------
(* parser.GrokParser.  A message is the sequence of its atoms: a run of    *)
(* digits, a run of letters, or one character of punctuation; a run of     *)
(* word characters is never next to another one.  A Grok pattern is a      *)
(* sequence of tokens %{NAME:field} (field "" when the token has no field) *)
(* separated by single spaces.  Of builtinPatterns the model keeps IP and  *)
(* WORD.                                                                   *)

MaxTokens == 3

DigitAtoms == {"10", "0", "1", "7"}
LetterAtoms == {"GET", "not", "an", "ip", "x", "ERROR", "disk", "full", "healthcheck", "ok"}

\* \d{1,3} and \w+ on one atom
IsDigits(a) == a \in DigitAtoms
IsWord(a) == a \in DigitAtoms \cup LetterAtoms

builtinPatterns == {"IP", "WORD"}

Token(name, field) == [name |-> name, field |-> field]

\* The end (exclusive) of the text the built-in regex of name matches at
\* position pos of msg when the next token or the end of the pattern
\* follows it; 0 when it does not match there.
BuiltinEnd(name, msg, pos) ==
    IF name = "WORD"
    THEN IF pos <= Len(msg) /\ IsWord(msg[pos]) THEN pos + 1 ELSE 0
    ELSE IF /\ pos + 6 <= Len(msg)
            /\ \A k \in {0, 2, 4, 6} : IsDigits(msg[pos + k])
            /\ \A k \in {1, 3, 5} : msg[pos + k] = "."
         THEN pos + 7 ELSE 0

\* compileGrokPattern: the groups of the regex, one per token (capturing
\* only when the token has a field), and fieldNames, one per token too.
compileGrokPattern(pattern) ==
    IF \E i \in 1..Len(pattern) : pattern[i].name \notin builtinPatterns
    THEN [regex |-> <<>>, fieldNames |-> <<>>, err |-> "unknown grok pattern"]
    ELSE [regex |-> [i \in 1..Len(pattern) |->
                        [name |-> pattern[i].name, capturing |-> pattern[i].field # ""]],
          fieldNames |-> [i \in 1..Len(pattern) |-> pattern[i].field],
          err |-> "none"]

NewGrokParser(pattern) ==
    LET c == compileGrokPattern(pattern)
    IN [pattern |-> pattern, regex |-> c.regex, fieldNames |-> c.fieldNames, err |-> c.err]

\* The spans <<from, to>> (to exclusive) of the groups i.. of regex when
\* group i starts at pos; <<>> when the groups do not match there.  The
\* groups are separated by one space.
RECURSIVE GroupSpans(_, _, _, _)
GroupSpans(regex, msg, i, pos) ==
    LET end == BuiltinEnd(regex[i].name, msg, pos)
    IN IF end = 0 THEN <<>>
       ELSE IF i = Len(regex) THEN << <<pos, end>> >>
       ELSE IF end <= Len(msg) /\ msg[end] = " "
            THEN LET rest == GroupSpans(regex, msg, i + 1, end + 1)
                 IN IF rest = <<>> THEN <<>> ELSE << <<pos, end>> >> \o rest
            ELSE <<>>

\* The leftmost position at which regex matches msg, 0 when there is none.
RECURSIVE LeftmostStart(_, _, _)
LeftmostStart(regex, msg, pos) ==
    IF pos > Len(msg) THEN 0
    ELSE IF GroupSpans(regex, msg, 1, pos) # <<>> THEN pos
    ELSE LeftmostStart(regex, msg, pos + 1)

\* The indices of the capturing groups of regex, in order.
RECURSIVE CapturingFrom(_, _)
CapturingFrom(regex, i) ==
    IF i > Len(regex) THEN <<>>
    ELSE IF regex[i].capturing THEN <<i>> \o CapturingFrom(regex, i + 1)
    ELSE CapturingFrom(regex, i + 1)

\* regexp.FindStringSubmatch: nil, or the whole match followed by the text
\* of each capturing group.
FindStringSubmatch(regex, msg) ==
    LET s == LeftmostStart(regex, msg, 1)
    IN IF s = 0 THEN [nil |-> TRUE, m |-> <<>>]
       ELSE LET spans == GroupSpans(regex, msg, 1, s)
                caps == CapturingFrom(regex, 1)
            IN [nil |-> FALSE,
                m |-> <<SubSeq(msg, s, spans[Len(spans)][2] - 1)>> \o
                      [k \in 1..Len(caps) |->
                          SubSeq(msg, spans[caps[k]][1], spans[caps[k]][2] - 1)]]

\* A map[string]string: nil, or a function from its keys.
NilFields == [nil |-> TRUE, m |-> <<>>]
MakeFields == [nil |-> FALSE, m |-> <<>>]
SetField(f, k, v) == [f EXCEPT !.m = (k :> v) @@ @]

\* The loop "for i, name := range g.fieldNames" of Parse (i counts from 1
\* here, so matches[i+1] of the code is matches[i + 1] of the sequence
\* that starts with the whole match at 1).
RECURSIVE ParseLoop(_, _, _, _)
ParseLoop(fieldNames, matches, fields, i) ==
    IF i > Len(fieldNames) THEN fields
    ELSE IF i + 1 <= Len(matches) /\ fieldNames[i] # ""
         THEN ParseLoop(fieldNames, matches,
                        SetField(fields, fieldNames[i], matches[i + 1]), i + 1)
         ELSE ParseLoop(fieldNames, matches, fields, i + 1)

ParseMakesMapFirst(g, e) ==
    LET matches == FindStringSubmatch(g.regex, e.msg)
        fields == IF e.fields.nil THEN MakeFields ELSE e.fields
    IN IF matches.nil THEN [ok |-> FALSE, e |-> [e EXCEPT !.fields = fields]]
       ELSE [ok |-> TRUE,
             e |-> [e EXCEPT !.fields = ParseLoop(g.fieldNames, matches.m, fields, 1)]]

\* GrokParser.Parse
Parse(g, e) ==
    LET matches == FindStringSubmatch(g.regex, e.msg)
        fields == IF e.fields.nil THEN MakeFields ELSE e.fields
    IN IF matches.nil THEN [ok |-> FALSE, e |-> e]
       ELSE [ok |-> TRUE,
             e |-> [e EXCEPT !.fields = ParseLoop(g.fieldNames, matches.m, fields, 1)]]

\* The parser on its own: any pattern of up to MaxTokens tokens, entries
\* with any of the messages and field maps below.
GrokTokens == {Token(n, f) : n \in {"IP", "WORD", "NOPE"}, f \in {"", "client", "method"}}

GrokPatterns == UNION {[1..n -> GrokTokens] : n \in 1..MaxTokens}

GrokLines == { <<"10", ".", "0", ".", "0", ".", "1", " ", "GET">>,
               <<"not", "-", "an", "-", "ip", " ", "GET">>,
               <<"GET", " ", "10", ".", "0", ".", "0", ".", "1", " ", "x">>,
               <<"GET", " ", "x", " ", "7">> }

GrokFields == { NilFields, MakeFields,
                SetField(MakeFields, "host", <<"x">>),
                SetField(SetField(MakeFields, "host", <<"x">>), "method", <<"7">>) }

GrokEntries == [msg : GrokLines, fields : GrokFields]

InitGrok ==
    /\ \E pattern \in GrokPatterns : gp = NewGrokParser(pattern)
    /\ ge \in GrokEntries
    /\ gLast = [called |-> FALSE, ok |-> FALSE, before |-> ge]
    /\ RingIdle /\ CtxIdle /\ RateIdle /\ ChainIdle /\ PipeIdle /\ SrcIdle /\ ExtIdle

\* g.Parse(&e) on a parser NewGrokParser returned without error.
GrokParse ==
    /\ gp.err = "none"
    /\ LET r == Parse(gp, ge)
       IN /\ ge' = r.e
          /\ gLast' = [called |-> TRUE, ok |-> r.ok, before |-> ge]
    /\ UNCHANGED <<gp, ringVars, ctxVars, rateVars, chainVars, pipeVars, srcVars, extVars>>

\* The caller takes the next entry.
GrokNextEntry ==
    /\ gLast.called
    /\ ge' \in GrokEntries
    /\ gLast' = [called |-> FALSE, ok |-> FALSE, before |-> ge']
    /\ UNCHANGED <<gp, ringVars, ctxVars, rateVars, chainVars, pipeVars, srcVars, extVars>>

NextGrok == GrokParse \/ GrokNextEntry

SpecGrok == InitGrok /\ [][NextGrok]_vars

----------------------------------------------------------------------------
(* The source adapters: stdin, file, exec, docker.  Start returns a        *)
(* channel and leaves goroutines behind: one reader for stdin and file,    *)
(* two readers (stdout, stderr) and a closing goroutine for exec and       *)
(* docker.  A reader's pipe is the sequence of the lines it has not read   *)
(* yet.  A reader steps through scanner.Scan, the select on ctx.Done, the  *)
(* evaluation of seq.Add(1) and the send on the channel.  The channel has  *)
(* room for ChanCap entries (256 in the code).                             *)

MaxInput == 4
ChanCap == 2

SrcKinds == {"stdin", "file", "exec", "docker"}
SrcLines == {<<"ERROR", "disk", "full">>, <<"healthcheck", "ok">>}

TwoReaders(kind) == kind \in {"exec", "docker"}

NewReader == [pc |-> "scan", pipe |-> <<>>, eof |-> FALSE, cur |-> ZeroEntry,
              signalled |-> FALSE]

\* The state right after Start returned the channel.
Started(kind, follow) ==
    /\ srcSt = [kind |-> kind, follow |-> follow, seq |-> 0, ctxDone |-> FALSE,
                produced |-> 0, procExited |-> FALSE,
                wg |-> IF kind = "exec" THEN 2 ELSE 0, dones |-> 0,
                closer |-> IF TwoReaders(kind) THEN "readers" ELSE "none",
                panicked |-> FALSE,
                frag |-> <<>>, writing |-> <<>>, split |-> FALSE, scanEOF |-> FALSE,
                fileLines |-> <<>>]
    /\ readers = [r \in 1..(IF TwoReaders(kind) THEN 2 ELSE 1) |-> NewReader]
    /\ ch = [buf |-> <<>>, closed |-> FALSE]
    /\ recvd = <<>>

notSrcVars == <<ringVars, ctxVars, rateVars, chainVars, pipeVars, grokVars, extVars>>

\* The reader goroutine r returns: from the select on ctx.Done (viaCtx) or
\* after its loop.  exec: the deferred wg.Done runs.  docker: the signal on
\* done follows the loop only.  stdin, file: the deferred close(ch) runs.
Return(r, viaCtx) ==
    IF srcSt.kind = "exec"
    THEN /\ readers' = [readers EXCEPT ![r].pc = "exited"]
         /\ srcSt' = [srcSt EXCEPT !.wg = @ - 1]
         /\ ch' = ch
    ELSE IF srcSt.kind = "docker"
    THEN /\ readers' = [readers EXCEPT ![r].pc = IF viaCtx THEN "exited" ELSE "signal"]
         /\ UNCHANGED <<srcSt, ch>>
    ELSE /\ readers' = [readers EXCEPT ![r].pc = "exited"]
         /\ ch' = [ch EXCEPT !.closed = TRUE]
         /\ srcSt' = srcSt

\* scanner.Scan(): the next line of the pipe; false at the end of the
\* input (a file is at its end whenever no unread data is left); blocked
\* while the pipe is open and empty.  At the end of a file the scanner
\* returns unread text that no newline ends yet (srcSt.frag) as a line,
\* and having seen the end it returns false from then on (srcSt.scanEOF)
\* until the poll makes a new scanner.
ReaderScan(r) ==
    /\ readers[r].pc = "scan"
    /\ IF readers[r].pipe # <<>> /\ ~srcSt.scanEOF
       THEN /\ readers' = [readers EXCEPT ![r].pc = "select",
                                          ![r].cur = NewEntry(0, Head(readers[r].pipe)),
                                          ![r].pipe = Tail(readers[r].pipe)]
            /\ UNCHANGED <<srcSt, ch>>
       ELSE IF srcSt.frag # <<>> /\ ~srcSt.scanEOF
       THEN /\ readers' = [readers EXCEPT ![r].pc = "select",
                                          ![r].cur = NewEntry(0, srcSt.frag)]
            /\ srcSt' = [srcSt EXCEPT !.frag = <<>>, !.split = TRUE, !.scanEOF = TRUE]
            /\ ch' = ch
       ELSE /\ srcSt.kind = "file" \/ readers[r].eof
            /\ IF srcSt.kind = "file" /\ srcSt.follow
               THEN /\ readers' = [readers EXCEPT ![r].pc = "poll"]
                    /\ srcSt' = [srcSt EXCEPT !.scanEOF = FALSE]
                    /\ ch' = ch
               ELSE Return(r, FALSE)
    /\ UNCHANGED <<recvd, notSrcVars>>

\* select { case <-ctx.Done(): return; default: }
ReaderSelect(r) ==
    /\ readers[r].pc = "select"
    /\ IF srcSt.ctxDone THEN Return(r, TRUE)
       ELSE /\ readers' = [readers EXCEPT ![r].pc = "add"]
            /\ UNCHANGED <<srcSt, ch>>
    /\ UNCHANGED <<recvd, notSrcVars>>

ReaderAddLoadThenStore(r) ==
    /\ readers[r].pc = "add"
    /\ \E seen \in {srcSt.seq, Max(srcSt.seq - 1, 0)} :
          /\ srcSt' = [srcSt EXCEPT !.seq = seen + 1]
          /\ readers' = [readers EXCEPT ![r].pc = "send", ![r].cur.seq = seen + 1]
    /\ UNCHANGED <<ch, recvd, notSrcVars>>

\* The operand of the send is evaluated: Seq: s.seq.Add(1).
ReaderAdd(r) ==
    /\ readers[r].pc = "add"
    /\ srcSt' = [srcSt EXCEPT !.seq = @ + 1]
    /\ readers' = [readers EXCEPT ![r].pc = "send", ![r].cur.seq = srcSt.seq + 1]
    /\ UNCHANGED <<ch, recvd, notSrcVars>>

\* ch <- entry: panics on a closed channel, blocks while the channel is full.
ReaderSend(r) ==
    /\ readers[r].pc = "send"
    /\ IF ch.closed
       THEN /\ srcSt' = [srcSt EXCEPT !.panicked = TRUE]
            /\ readers' = [readers EXCEPT ![r].pc = "exited"]
            /\ ch' = ch
       ELSE /\ Len(ch.buf) < ChanCap
            /\ ch' = [ch EXCEPT !.buf = Append(@, readers[r].cur)]
            /\ readers' = [readers EXCEPT ![r].pc = "scan"]
            /\ srcSt' = srcSt
    /\ UNCHANGED <<recvd, notSrcVars>>

\* docker: done <- struct{}{} meets one "<-done" of the closing goroutine.
ReaderSignal(r) ==
    /\ readers[r].pc = "signal"
    /\ srcSt.closer = "readers"
    /\ srcSt.dones < 2
    /\ srcSt' = [srcSt EXCEPT !.dones = @ + 1]
    /\ readers' = [readers EXCEPT ![r].pc = "exited", ![r].signalled = TRUE]
    /\ UNCHANGED <<ch, recvd, notSrcVars>>

\* file, follow: select { case <-ctx.Done(): return; case <-time.After(...): }
ReaderPoll(r) ==
    /\ readers[r].pc = "poll"
    /\ \/ srcSt.ctxDone /\ Return(r, TRUE)
       \/ /\ readers' = [readers EXCEPT ![r].pc = "scan"]
          /\ UNCHANGED <<srcSt, ch>>
    /\ UNCHANGED <<recvd, notSrcVars>>

ReadersDoneAfterOne(st) ==
    IF st.kind = "exec" THEN st.wg <= 1 ELSE st.dones >= 1

\* exec: wg.Wait() returns; docker: both "<-done" have received.
ReadersDone(st) ==
    IF st.kind = "exec" THEN st.wg = 0 ELSE st.dones = 2

CloserWait ==
    /\ srcSt.closer = "readers"
    /\ ReadersDone(srcSt)
    /\ srcSt' = [srcSt EXCEPT !.closer = "proc"]
    /\ UNCHANGED <<readers, ch, recvd, notSrcVars>>

\* _ = cmd.Wait() returns once the process has exited.
CloserProcWait ==
    /\ srcSt.closer = "proc"
    /\ srcSt.procExited
    /\ srcSt' = [srcSt EXCEPT !.closer = "close"]
    /\ UNCHANGED <<readers, ch, recvd, notSrcVars>>

\* close(ch)
CloserClose ==
    /\ srcSt.closer = "close"
    /\ srcSt' = [srcSt EXCEPT !.closer = "exited"]
    /\ ch' = [ch EXCEPT !.closed = TRUE]
    /\ UNCHANGED <<readers, recvd, notSrcVars>>

\* exec.CommandContext kills the process once ctx is done: the pipes end.
ProcKill ==
    /\ TwoReaders(srcSt.kind)
    /\ srcSt.ctxDone /\ ~srcSt.procExited
    /\ srcSt' = [srcSt EXCEPT !.procExited = TRUE]
    /\ readers' = [r \in DOMAIN readers |-> [readers[r] EXCEPT !.eof = TRUE]]
    /\ UNCHANGED <<ch, recvd, notSrcVars>>

\* The environment: the process exits by itself.
ProcExit ==
    /\ TwoReaders(srcSt.kind)
    /\ ~srcSt.procExited
    /\ srcSt' = [srcSt EXCEPT !.procExited = TRUE]
    /\ readers' = [r \in DOMAIN readers |-> [readers[r] EXCEPT !.eof = TRUE]]
    /\ UNCHANGED <<ch, recvd, notSrcVars>>

\* The environment: standard input is closed by its writer.
StdinEOF ==
    /\ srcSt.kind = "stdin"
    /\ ~readers[1].eof
    /\ readers' = [readers EXCEPT ![1].eof = TRUE]
    /\ UNCHANGED <<srcSt, ch, recvd, notSrcVars>>

\* The environment: one more line arrives on the input of reader r.
InputLine(r) ==
    /\ srcSt.produced < MaxInput
    /\ ~readers[r].eof
    /\ readers[r].pc # "exited"
    /\ srcSt.writing = <<>>
    /\ \E msg \in SrcLines :
          /\ readers' = [readers EXCEPT ![r].pipe = Append(@, msg)]
          /\ srcSt' = [srcSt EXCEPT !.produced = @ + 1,
                                    !.fileLines = IF srcSt.kind = "file"
                                                  THEN Append(@, msg) ELSE @]
    /\ UNCHANGED <<ch, recvd, notSrcVars>>

\* The environment: a writer appends the beginning of a line to a followed
\* file, its first word, and not yet the rest with the newline.  (A file
\* read without follow is written by whole lines.)
FileWritePartial ==
    /\ srcSt.kind = "file" /\ srcSt.follow
    /\ srcSt.produced < MaxInput
    /\ readers[1].pc # "exited"
    /\ srcSt.writing = <<>>
    /\ \E msg \in SrcLines :
          srcSt' = [srcSt EXCEPT !.produced = @ + 1, !.frag = <<Head(msg)>>,
                                 !.writing = msg, !.split = FALSE]
    /\ UNCHANGED <<readers, ch, recvd, notSrcVars>>

\* The environment: the writer appends the rest of the line and its
\* newline.  The file now holds the whole line; the reader finds the whole
\* line, or only its rest when the scanner has taken the beginning.
FileWriteRest ==
    /\ srcSt.kind = "file"
    /\ srcSt.writing # <<>>
    /\ readers[1].pc # "exited"
    /\ readers' = [readers EXCEPT ![1].pipe =
                      Append(@, IF srcSt.split THEN Tail(srcSt.writing)
                                ELSE srcSt.writing)]
    /\ srcSt' = [srcSt EXCEPT !.frag = <<>>, !.writing = <<>>,
                              !.fileLines = Append(@, srcSt.writing)]
    /\ UNCHANGED <<ch, recvd, notSrcVars>>

\* The environment: the context is cancelled.
Cancel ==
    /\ ~srcSt.ctxDone
    /\ srcSt' = [srcSt EXCEPT !.ctxDone = TRUE]
    /\ UNCHANGED <<readers, ch, recvd, notSrcVars>>

\* The consumer receives from the channel.
SrcReceive ==
    /\ ch.buf # <<>>
    /\ recvd' = Append(recvd, Head(ch.buf))
    /\ ch' = [ch EXCEPT !.buf = Tail(@)]
    /\ UNCHANGED <<srcSt, readers, notSrcVars>>

\* The steps of the goroutines of the source (and of the kill of the process).
SrcStep ==
    \/ \E r \in DOMAIN readers :
          \/ ReaderScan(r) \/ ReaderSelect(r) \/ ReaderAdd(r) \/ ReaderSend(r)
          \/ ReaderSignal(r) \/ ReaderPoll(r)
    \/ CloserWait \/ CloserProcWait \/ CloserClose
    \/ ProcKill

\* The steps of the environment of the source.
SrcEnv ==
    \/ \E r \in DOMAIN readers : InputLine(r)
    \/ ProcExit \/ StdinEOF \/ Cancel

InitSrc ==
    /\ \E kind \in SrcKinds, follow \in BOOLEAN :
          /\ follow => kind = "file"
          /\ Started(kind, follow)
    /\ RingIdle /\ CtxIdle /\ RateIdle /\ ChainIdle /\ PipeIdle /\ GrokIdle /\ ExtIdle

NextSrc == SrcStep \/ SrcEnv \/ SrcReceive

SpecSrc == InitSrc /\ [][NextSrc]_vars

----------------------------------------------------------------------------
(* pipeline.Run reading from a source adapter: the loop of Run is the      *)
(* consumer of the adapter's channel.  The state starts right after        *)
(* Source.Start returned.                                                  *)

InitRunSrc ==
    /\ \E kind \in SrcKinds, follow \in BOOLEAN :
          /\ follow => kind = "file"
          /\ Started(kind, follow)
    /\ cfg = [hasSource |-> TRUE, startFails |-> FALSE, hasFilters |-> TRUE,
              hasContext |-> FALSE, hasRing |-> FALSE]
    /\ pc = "streaming"
    /\ ret = NoError
    /\ sinks = <<NewSink>>
    /\ stats = [totalLines |-> 0, matchedLines |-> 0]
    /\ srcSeq = 0
    /\ srcLog = <<>>
    /\ srcLimit = MaxInput
    /\ startCalls = 0
    /\ detects = 0
    /\ chain = ChainAdd(NewChain(MatchAny), KeywordFilter(<<"ERROR">>))
    /\ chLast = [called |-> FALSE, chain |-> NewChain(MatchAny), e |-> ZeroEntry,
                 out |-> ZeroEntry, ok |-> FALSE]
    /\ cb = NewContextBuffer(chain, 0, 0)
    /\ cbFed = <<>>
    /\ cbOut = <<>>
    /\ cbLast = [isMatch |-> FALSE, afterBefore |-> 0, result |-> <<>>]
    /\ ring = NewRing(PipeRingCapacity)
    /\ ringPushed = <<>>
    /\ RateIdle /\ GrokIdle /\ ExtIdle

\* "for e := range ch" receives an entry and runs the loop body on it.
RunRecv ==
    /\ ch.buf # <<>>
    /\ RunIterOn(Head(ch.buf))
    /\ ch' = [ch EXCEPT !.buf = Tail(@)]
    /\ UNCHANGED <<srcSt, readers, recvd, extVars>>

\* "for e := range ch" ends: the channel is closed and drained.
RunClosed ==
    /\ ch.closed /\ ch.buf = <<>>
    /\ RunDrain

NextRunSrc == SrcStep \/ SrcEnv \/ RunRecv \/ RunClosed

SpecRunSrc == InitRunSrc /\ [][NextRunSrc]_vars

----------------------------------------------------------------------------
(* monitor.AlertEngine.  A rule's pattern is a plain run of words and      *)
(* Pattern.MatchString is containment of that run; the name of a rule is   *)
(* its pattern.                                                            *)

MaxRules == 2
MaxAlertCalls == 4

AlertRule(p) == [name |-> p, pattern |-> p, count |-> 0]

\* NewAlertEngine(patterns)
NewAlertEngine(patterns) == [i \in 1..Len(patterns) |-> AlertRule(patterns[i])]

\* The loop of Check from rule i on: the rules after the call and the
\* names of the triggered rules.
RECURSIVE CheckLoop(_, _, _)
CheckLoop(rules, msg, i) ==
    IF i > Len(rules) THEN [rules |-> rules, triggered |-> <<>>]
    ELSE IF Contains(msg, rules[i].pattern)
         THEN LET rest == CheckLoop([rules EXCEPT ![i].count = @ + 1], msg, i + 1)
              IN [rules |-> rest.rules, triggered |-> <<rules[i].name>> \o rest.triggered]
         ELSE CheckLoop(rules, msg, i + 1)

RECURSIVE CheckLoopFirstOnly(_, _, _)
CheckLoopFirstOnly(rules, msg, i) ==
    IF i > Len(rules) THEN [rules |-> rules, triggered |-> <<>>]
    ELSE IF Contains(msg, rules[i].pattern)
         THEN [rules |-> [rules EXCEPT ![i].count = @ + 1], triggered |-> <<rules[i].name>>]
         ELSE CheckLoopFirstOnly(rules, msg, i + 1)

CheckFirstOnly(rules, msg) ==
    IF Len(rules) = 0 THEN [rules |-> rules, triggered |-> <<>>]
    ELSE CheckLoopFirstOnly(rules, msg, 1)

\* AlertEngine.Check
Check(rules, msg) ==
    IF Len(rules) = 0 THEN [rules |-> rules, triggered |-> <<>>]
    ELSE CheckLoop(rules, msg, 1)

\* AlertEngine.Summary: one line per rule with its name and its count.
Summary(rules) == [i \in 1..Len(rules) |-> <<rules[i].name, rules[i].count>>]

\* AlertEngine.TotalAlerts
RECURSIVE TotalLoop(_, _)
TotalLoop(rules, i) ==
    IF i > Len(rules) THEN 0 ELSE rules[i].count + TotalLoop(rules, i + 1)

TotalAlerts(rules) == TotalLoop(rules, 1)

\* The engine on its own: any rules, any sequence of calls.
AlertPatterns == {<<"ERROR">>, <<"disk">>, <<"healthcheck", "failed">>}

notAlertVars == <<ringVars, ctxVars, rateVars, chainVars, pipeVars, grokVars, srcVars,
                  rc, dl, rdLast, tui, lateVars>>

InitAlert ==
    /\ \E n \in 0..MaxRules : \E patterns \in [1..n -> AlertPatterns] :
          alerts = NewAlertEngine(patterns)
    /\ alLast = [op |-> "none", calls |-> 0, msg |-> <<>>, result |-> <<>>, total |-> 0]
    /\ RingIdle /\ CtxIdle /\ RateIdle /\ ChainIdle /\ PipeIdle /\ GrokIdle /\ SrcIdle
    /\ ConcIdle /\ LevelIdle /\ AccessIdle /\ TuiIdle /\ LateIdle

AlertCheck ==
    /\ alLast.calls < MaxAlertCalls
    /\ \E msg \in LogLines :
          LET r == Check(alerts, msg)
          IN /\ alerts' = r.rules
             /\ alLast' = [op |-> "Check", calls |-> alLast.calls + 1, msg |-> msg,
                           result |-> r.triggered, total |-> 0]
    /\ UNCHANGED notAlertVars

AlertSummary ==
    /\ alLast.calls < MaxAlertCalls
    /\ alLast' = [op |-> "Summary", calls |-> alLast.calls + 1, msg |-> <<>>,
                  result |-> Summary(alerts), total |-> 0]
    /\ UNCHANGED <<alerts, notAlertVars>>

AlertTotal ==
    /\ alLast.calls < MaxAlertCalls
    /\ alLast' = [op |-> "TotalAlerts", calls |-> alLast.calls + 1, msg |-> <<>>,
                  result |-> <<>>, total |-> TotalAlerts(alerts)]
    /\ UNCHANGED <<alerts, notAlertVars>>

NextAlert == AlertCheck \/ AlertSummary \/ AlertTotal

SpecAlert == InitAlert /\ [][NextAlert]_vars

----------------------------------------------------------------------------
(* buffer.Ring shared by goroutines: one writer calls Push, the readers    *)
(* call Snapshot, Len and Dropped.  Each method is split into the steps    *)
(* it takes between locking and unlocking r.mu (a sync.RWMutex).           *)

MaxConcPush == 3
NumReaders == 2
ConcCaps == {1, 2}

NewRingReader == [pc |-> "idle", op |-> "none", seen |-> 0, n |-> 0, start |-> 0,
                  k |-> 0, result |-> <<>>, value |-> 0]

\* r.mu.Lock() succeeds when no goroutine holds the mutex.
CanLock(c) == ~c.locked /\ c.rlocks = 0

CanRLockAlways(c) == TRUE

\* r.mu.RLock() succeeds when no writer holds the mutex.
CanRLock(c) == ~c.locked

notConcVars == <<ctxVars, rateVars, chainVars, pipeVars, grokVars, srcVars, alertVars,
                 dl, rdLast, tui, lateVars>>

\* copy(dst[at:], src): the first min(len(dst) - at, len(src)) elements of
\* src overwrite dst from index at (counted from 0) on.
Copy(dst, at, src) ==
    LET m == Min(Len(dst) - at, Len(src))
    IN [i \in 1..Len(dst) |-> IF i > at /\ i <= at + m THEN src[i - at] ELSE dst[i]]

\* r.entries[from:to] as a sequence
Slice(r, from, to) == [i \in 1..(to - from) |-> r.entries[from + i - 1]]

InitRingConc ==
    /\ \E capacity \in ConcCaps : ring = NewRing(capacity)
    /\ ringPushed = <<>>
    /\ rc = [locked |-> FALSE, rlocks |-> 0, writer |-> [pc |-> "idle", e |-> ZeroEntry],
             readers |-> [i \in 1..NumReaders |-> NewRingReader]]
    /\ CtxIdle /\ RateIdle /\ ChainIdle /\ PipeIdle /\ GrokIdle /\ SrcIdle
    /\ AlertIdle /\ LevelIdle /\ AccessIdle /\ TuiIdle /\ LateIdle

\* Push: r.mu.Lock()
PushLock ==
    /\ rc.writer.pc = "idle"
    /\ Len(ringPushed) < MaxConcPush
    /\ CanLock(rc)
    /\ rc' = [rc EXCEPT !.locked = TRUE,
                        !.writer = [pc |-> "store",
                                    e |-> NewEntry(Len(ringPushed) + 1, <<"a">>)]]
    /\ UNCHANGED <<ringVars, notConcVars>>

\* Push: r.entries[r.head] = e
PushStore ==
    /\ rc.writer.pc = "store"
    /\ ring' = [ring EXCEPT !.entries[ring.head] = rc.writer.e]
    /\ rc' = [rc EXCEPT !.writer.pc = "head"]
    /\ UNCHANGED <<ringPushed, notConcVars>>

\* Push: r.head = (r.head + 1) % r.capacity
PushHead ==
    /\ rc.writer.pc = "head"
    /\ ring' = [ring EXCEPT !.head = (ring.head + 1) % ring.capacity]
    /\ rc' = [rc EXCEPT !.writer.pc = "count"]
    /\ UNCHANGED <<ringPushed, notConcVars>>

\* Push: r.count++ or r.dropped++
PushCount ==
    /\ rc.writer.pc = "count"
    /\ ring' = IF ring.count < ring.capacity THEN [ring EXCEPT !.count = @ + 1]
               ELSE [ring EXCEPT !.dropped = @ + 1]
    /\ rc' = [rc EXCEPT !.writer.pc = "unlock"]
    /\ UNCHANGED <<ringPushed, notConcVars>>

\* Push: r.mu.Unlock(); the push is complete.
PushUnlock ==
    /\ rc.writer.pc = "unlock"
    /\ rc' = [rc EXCEPT !.locked = FALSE, !.writer.pc = "idle"]
    /\ ringPushed' = Append(ringPushed, rc.writer.e)
    /\ UNCHANGED <<ring, notConcVars>>

\* Snapshot, Len, Dropped: r.mu.RLock()
ReadLock(i) ==
    /\ rc.readers[i].pc \in {"idle", "done"}
    /\ CanRLock(rc)
    /\ \E op \in {"Snapshot", "Len", "Dropped"} :
          rc' = [rc EXCEPT !.rlocks = @ + 1,
                           !.readers[i] = [NewRingReader EXCEPT
                                              !.pc = IF op = "Snapshot" THEN "make" ELSE "value",
                                              !.op = op,
                                              !.seen = Len(ringPushed)]]
    /\ UNCHANGED <<ringVars, notConcVars>>

\* Len: return r.count; Dropped: return r.dropped
ReadValue(i) ==
    /\ rc.readers[i].pc = "value"
    /\ rc' = [rc EXCEPT !.readers[i].pc = "unlock",
                        !.readers[i].value = IF rc.readers[i].op = "Len" THEN ring.count
                                             ELSE ring.dropped]
    /\ UNCHANGED <<ringVars, notConcVars>>

\* Snapshot: result := make([]entry.LogEntry, r.count)
SnapMake(i) ==
    /\ rc.readers[i].pc = "make"
    /\ rc' = [rc EXCEPT !.readers[i].pc = "branch",
                        !.readers[i].n = ring.count,
                        !.readers[i].result = [j \in 1..ring.count |-> ZeroEntry]]
    /\ UNCHANGED <<ringVars, notConcVars>>

\* Snapshot: if r.count < r.capacity { copy(result, r.entries[:r.count]) }
\* else { start := r.head % r.capacity; n := copy(result, r.entries[start:]) ...
SnapBranch(i) ==
    /\ rc.readers[i].pc = "branch"
    /\ IF ring.count < ring.capacity
       THEN rc' = [rc EXCEPT !.readers[i].pc = "unlock",
                             !.readers[i].result = Copy(@, 0, Slice(ring, 0, ring.count))]
       ELSE LET start == ring.head % ring.capacity
                src == Slice(ring, start, ring.capacity)
            IN rc' = [rc EXCEPT !.readers[i].pc = "copy2",
                                !.readers[i].start = start,
                                !.readers[i].k = Min(Len(rc.readers[i].result), Len(src)),
                                !.readers[i].result = Copy(@, 0, src)]
    /\ UNCHANGED <<ringVars, notConcVars>>

\* Snapshot: copy(result[n:], r.entries[:start])
SnapCopy2(i) ==
    /\ rc.readers[i].pc = "copy2"
    /\ rc' = [rc EXCEPT !.readers[i].pc = "unlock",
                        !.readers[i].result =
                            Copy(@, rc.readers[i].k, Slice(ring, 0, rc.readers[i].start))]
    /\ UNCHANGED <<ringVars, notConcVars>>

\* The deferred r.mu.RUnlock(); the method returns.
ReadUnlock(i) ==
    /\ rc.readers[i].pc = "unlock"
    /\ rc' = [rc EXCEPT !.rlocks = @ - 1, !.readers[i].pc = "done"]
    /\ UNCHANGED <<ringVars, notConcVars>>

NextRingConc ==
    \/ PushLock \/ PushStore \/ PushHead \/ PushCount \/ PushUnlock
    \/ \E i \in 1..NumReaders :
          ReadLock(i) \/ ReadValue(i) \/ SnapMake(i) \/ SnapBranch(i) \/ SnapCopy2(i)
          \/ ReadUnlock(i)

SpecRingConc == InitRingConc /\ [][NextRingConc]_vars

----------------------------------------------------------------------------
(* filter.DetectLevel on its own: any message of up to MaxWords words.     *)

MaxWords == 3

LevelWords == {"ERROR", "INFO", "warn", "FATAL", "TRACE", "disk"}

LevelMessages == UNION {[1..n -> LevelWords] : n \in 1..MaxWords}

notLevelVars == <<ringVars, ctxVars, rateVars, chainVars, pipeVars, grokVars, srcVars,
                  alertVars, rc, rdLast, tui, lateVars>>

InitLevel ==
    /\ \E msg \in LevelMessages : dl = [msg |-> msg, called |-> FALSE, level |-> LevelUnknown]
    /\ RingIdle /\ CtxIdle /\ RateIdle /\ ChainIdle /\ PipeIdle /\ GrokIdle /\ SrcIdle
    /\ AlertIdle /\ ConcIdle /\ AccessIdle /\ TuiIdle /\ LateIdle

\* level := DetectLevel(msg)
LevelDetect ==
    /\ ~dl.called
    /\ dl' = [dl EXCEPT !.called = TRUE, !.level = DetectLevel(dl.msg)]
    /\ UNCHANGED notLevelVars

\* The caller takes the next message.
LevelNextMessage ==
    /\ dl.called
    /\ \E msg \in LevelMessages : dl' = [msg |-> msg, called |-> FALSE, level |-> LevelUnknown]
    /\ UNCHANGED notLevelVars

NextLevel == LevelDetect \/ LevelNextMessage

SpecLevel == InitLevel /\ [][NextLevel]_vars

----------------------------------------------------------------------------
(* The rate detector with all its accessors: Record, CurrentRate and       *)
(* LatestSecondRate are called while the clock ticks.                      *)

MaxAccessRecords == 5

notRateVars == <<ringVars, ctxVars, chainVars, pipeVars, grokVars, srcVars, alertVars,
                 rc, dl, tui, lateVars>>

InitRateAccess ==
    /\ \E window \in RateWindows, threshold \in RateThresholds :
          rd = NewRateDetector(window, threshold)
    /\ now = 0
    /\ rdLog = <<>>
    /\ rdLastAt = 0
    /\ rdLast = [op |-> "none", at |-> 0, result |-> 0]
    /\ RingIdle /\ CtxIdle /\ ChainIdle /\ PipeIdle /\ GrokIdle /\ SrcIdle
    /\ AlertIdle /\ ConcIdle /\ LevelIdle /\ TuiIdle /\ LateIdle

AccessRecord ==
    /\ Len(rdLog) < MaxAccessRecords
    /\ LET r == Record(rd, now)
       IN /\ rd' = r.rd
          /\ rdLog' = Append(rdLog, [sec |-> Truncate(now), spike |-> r.spike])
          /\ rdLastAt' = now
          /\ rdLast' = [op |-> "Record", at |-> now, result |-> IF r.spike THEN 1 ELSE 0]
    /\ UNCHANGED <<now, notRateVars>>

AccessCurrentRate ==
    /\ LET r == CurrentRate(rd, now)
       IN /\ rd' = r.rd
          /\ rdLast' = [op |-> "CurrentRate", at |-> now, result |-> r.rate.num]
    /\ UNCHANGED <<now, rdLog, rdLastAt, notRateVars>>

AccessLatestSecondRate ==
    /\ rdLast' = [op |-> "LatestSecondRate", at |-> now,
                  result |-> LatestSecondRate(rd, now)]
    /\ UNCHANGED <<rd, now, rdLog, rdLastAt, notRateVars>>

NextRateAccess == Tick \/ AccessRecord \/ AccessCurrentRate \/ AccessLatestSecondRate

SpecRateAccess == InitRateAccess /\ [][NextRateAccess]_vars

----------------------------------------------------------------------------
(* tui.Run: the consumer goroutine that ranges over the source channel and *)
(* hands notifications to the program with program.Send.  It is run side   *)
(* by side with pipeline.Run on the same source entries and the same       *)
(* filter chain, context buffer and ring configuration (cfg, chain); tui   *)
(* holds the RunConfig objects of the TUI side (its own Stats, Ring,       *)
(* ContextBuffer, RateDetector with its clock, AlertEngine, GrokParser)    *)
(* and sent, the messages passed to program.Send in order.  spikeReports   *)
(* and alertReports count the Record calls that returned true and the      *)
(* Check calls that returned rules.                                        *)

MaxTuiLines == 5
MaxTuiNow == 4

TuiLines == { <<"ERROR", "disk", "full">>, <<"healthcheck", "ok">> }

\* The text of a message of words, as the atoms the Grok regex runs on.
RECURSIVE Atoms(_)
Atoms(msg) ==
    IF Len(msg) = 0 THEN <<>>
    ELSE IF Len(msg) = 1 THEN <<msg[1]>>
    ELSE <<msg[1], " ">> \o Atoms(Tail(msg))

\* entry.LogEntry with its Fields map
WithFields(e, f) == [seq |-> e.seq, msg |-> e.msg, level |-> e.level, fields |-> f]

LogMsg(e) == [type |-> "log", entry |-> e, rules |-> <<>>, rate |-> [num |-> 0, den |-> 1]]
AlertMsg(rules, e) == [type |-> "alert", entry |-> e, rules |-> rules,
                       rate |-> [num |-> 0, den |-> 1]]
SpikeMsg(rate) == [type |-> "spike", entry |-> WithFields(ZeroEntry, NilFields),
                   rules |-> <<>>, rate |-> rate]
DoneMsg == [type |-> "done", entry |-> WithFields(ZeroEntry, NilFields),
            rules |-> <<>>, rate |-> [num |-> 0, den |-> 1]]

\* program.Send
Send(t, m) == [t EXCEPT !.sent = Append(@, m)]

\* checkAlerts
checkAlerts(t, e) ==
    IF ~t.hasAlerts THEN t
    ELSE LET c == Check(t.alerts, e.msg)
             t1 == [t EXCEPT !.alerts = c.rules,
                             !.alertReports = IF Len(c.triggered) > 0 THEN @ + 1 ELSE @]
         IN IF Len(c.triggered) > 0 THEN Send(t1, AlertMsg(c.triggered, e)) ELSE t1

\* cfg.Grok.Parse(&e)
TuiParse(g, e) ==
    [e EXCEPT !.fields = Parse(g, [msg |-> Atoms(e.msg), fields |-> e.fields]).e.fields]

\* cfg.Rate.Record(): the detector after the call, and what it returned
TuiRecord(t) ==
    LET r == Record(t.rate, t.clock)
    IN [t |-> [t EXCEPT !.rate = r.rd,
                        !.spikeReports = IF r.spike THEN @ + 1 ELSE @],
        spike |-> r.spike]

\* "for i := range entries" of the context branch
RECURSIVE TuiContextLoop(_, _, _)
TuiContextLoop(t, entries, i) ==
    IF i > Len(entries) THEN t
    ELSE LET t1 == [t EXCEPT !.stats = RecordMatches(@, 1)]
             t2 == Send(t1, LogMsg(entries[i]))
             t3 == TuiRecord(t2).t
         IN TuiContextLoop(checkAlerts(t3, entries[i]), entries, i + 1)

\* The branch without a context buffer, from the filter chain on.
TuiPlain(t, e) ==
    LET m == IF cfg.hasFilters /\ ChainLen(chain) > 0 THEN ChainMatch(chain, e)
             ELSE [ok |-> TRUE, e |-> e]
    IN IF ~m.ok THEN t
       ELSE LET t1 == [t EXCEPT !.stats = RecordMatches(@, 1)]
                r == TuiRecord(t1)
                c == CurrentRate(r.t.rate, t.clock)
                t2 == IF r.spike
                      THEN Send([r.t EXCEPT !.rate = c.rd], SpikeMsg(c.rate))
                      ELSE r.t
            IN Send(checkAlerts(t2, m.e), LogMsg(m.e))

TuiStoreSkipped(t, e) == t

\* cfg.RingBuf.Push(e)
TuiStore(t, e) == IF cfg.hasRing THEN [t EXCEPT !.ring = Push(@, e)] ELSE t

\* The body of "for e := range ch" on the entry e0 of the source.
TuiIterOn(t, e0) ==
    LET t1 == [t EXCEPT !.stats = RecordLine(@)]
        e1 == WithFields(IF e0.level = LevelUnknown
                         THEN [e0 EXCEPT !.level = DetectLevel(e0.msg)] ELSE e0,
                         NilFields)
        e == IF t.hasGrok THEN TuiParse(t.grok, e1) ELSE e1
        t2 == TuiStore(t1, e)
    IN IF cfg.hasContext
       THEN LET p == Process(t2.cb, e)
            IN TuiContextLoop([t2 EXCEPT !.cb = p.cb], p.result, 1)
       ELSE TuiPlain(t2, e)

NewTui(hasGrok, hasAlerts, f, before, after) ==
    [pc |-> "streaming", hasGrok |-> hasGrok, hasAlerts |-> hasAlerts,
     grok |-> NewGrokParser(<<Token("WORD", "level"), Token("WORD", "what")>>),
     stats |-> [totalLines |-> 0, matchedLines |-> 0],
     ring |-> NewRing(PipeRingCapacity),
     cb |-> NewContextBuffer(f, before, after),
     rate |-> NewRateDetector(0, 2), clock |-> 0,
     alerts |-> NewAlertEngine(<<<<"disk">>, <<"ok">>>>),
     sent |-> <<>>, spikeReports |-> 0, alertReports |-> 0]

notTuiVars == <<alertVars, rc, dl, rdLast, lateVars>>

InitTui ==
    /\ \E ctxt \in BOOLEAN :
          cfg = [hasSource |-> TRUE, startFails |-> FALSE, hasFilters |-> TRUE,
                 hasContext |-> ctxt, hasRing |-> TRUE]
    /\ pc = "streaming"
    /\ ret = NoError
    /\ sinks = <<NewSink>>
    /\ stats = [totalLines |-> 0, matchedLines |-> 0]
    /\ srcSeq = 0
    /\ srcLog = <<>>
    /\ srcLimit = MaxTuiLines
    /\ startCalls = 1
    /\ detects = 0
    /\ chain = ChainAdd(NewChain(MatchAny), KeywordFilter(<<"ERROR">>))
    /\ chLast = [called |-> FALSE, chain |-> NewChain(MatchAny), e |-> ZeroEntry,
                 out |-> ZeroEntry, ok |-> FALSE]
    /\ cb = NewContextBuffer(chain, 1, 1)
    /\ cbFed = <<>>
    /\ cbOut = <<>>
    /\ cbLast = [isMatch |-> FALSE, afterBefore |-> 0, result |-> <<>>]
    /\ ring = NewRing(PipeRingCapacity)
    /\ ringPushed = <<>>
    /\ \E hasGrok \in BOOLEAN, hasAlerts \in BOOLEAN :
          tui = NewTui(hasGrok, hasAlerts, chain, 1, 1)
    /\ RateIdle /\ GrokIdle /\ SrcIdle
    /\ AlertIdle /\ ConcIdle /\ LevelIdle /\ AccessIdle /\ LateIdle

\* The source hands its next entry to both consumers.
TuiIter ==
    /\ tui.pc = "streaming"
    /\ srcSeq < srcLimit
    /\ \E msg \in TuiLines :
          /\ RunIterOn(NewEntry(srcSeq + 1, msg))
          /\ tui' = TuiIterOn(tui, NewEntry(srcSeq + 1, msg))
    /\ UNCHANGED <<srcVars, notTuiVars>>

\* time.Now() of the TUI's rate detector moves on.
TuiTick ==
    /\ tui.pc = "streaming"
    /\ tui.clock < MaxTuiNow
    /\ tui' = [tui EXCEPT !.clock = @ + 1]
    /\ UNCHANGED <<pipeVars, chainVars, ctxVars, ringVars, rateVars, grokVars, srcVars,
                   notTuiVars>>

\* The channel is closed: the goroutine sends DoneMsg.
TuiDone ==
    /\ tui.pc = "streaming"
    /\ tui' = [Send(tui, DoneMsg) EXCEPT !.pc = "done"]
    /\ UNCHANGED <<pipeVars, chainVars, ctxVars, ringVars, rateVars, grokVars, srcVars,
                   notTuiVars>>

\* The channel is closed: pipeline.Run drains its sinks and returns.
TuiRunDrain == tui.pc = "done" /\ RunDrain

NextTui == TuiIter \/ TuiTick \/ TuiDone \/ TuiRunDrain

SpecTui == InitTui /\ [][NextTui]_vars

----------------------------------------------------------------------------
(* buffer.Pool, Get and Put.  A pooled object is a whole entry.LogEntry:   *)
(* Timestamp (0 is the zero time), Stream, Level, Source, Message, Fields, *)
(* Raw and Seq.  sync.Pool.Get hands out any object that was put back, or  *)
(* a new one from New (it may also have dropped what was put).             *)

MaxPooled == 2

\* Pool.New
PoolNew == [timestamp |-> 0, stream |-> "", level |-> LevelUnknown, source |-> "",
            msg |-> <<>>, fields |-> MakeFields, raw |-> <<>>, seq |-> 0]

\* Entries a caller may hand to Put after using them.
UsedEntries ==
    { [timestamp |-> 3, stream |-> "stderr", level |-> LevelError, source |-> "app.log",
       msg |-> <<"ERROR", "disk", "full">>,
       fields |-> SetField(MakeFields, "host", <<"x">>), raw |-> <<69, 82>>, seq |-> 7],
      [timestamp |-> 0, stream |-> "stdin", level |-> LevelInfo, source |-> "",
       msg |-> <<"healthcheck", "ok">>, fields |-> NilFields, raw |-> <<>>, seq |-> 2],
      [timestamp |-> 5, stream |-> "", level |-> LevelUnknown, source |-> "",
       msg |-> <<>>, fields |-> MakeFields, raw |-> <<>>, seq |-> 0] }

\* "for k := range e.Fields { delete(e.Fields, k) }": a nil map stays nil.
ClearFields(f) == IF f.nil THEN f ELSE MakeFields

\* The resets of Get on the object e taken from the pool.
GetReset(e) ==
    [e EXCEPT !.fields = ClearFields(@), !.msg = <<>>, !.raw = <<>>, !.stream = "",
              !.source = "", !.level = LevelUnknown, !.seq = 0]

RemoveAt(s, i) == SubSeq(s, 1, i - 1) \o SubSeq(s, i + 1, Len(s))

notPoolVars == <<ringVars, ctxVars, rateVars, chainVars, pipeVars, grokVars, srcVars,
                 alertVars, rc, dl, rdLast, tui, pl, model>>

InitPool ==
    /\ pool = [items |-> <<>>, op |-> "none"]
    /\ RingIdle /\ CtxIdle /\ RateIdle /\ ChainIdle /\ PipeIdle /\ GrokIdle /\ SrcIdle
    /\ AlertIdle /\ ConcIdle /\ LevelIdle /\ AccessIdle /\ TuiIdle
    /\ ParseIdle /\ ModelIdle

\* buffer.Put(e), e a used entry or the entry the last Get returned
PoolPut ==
    /\ Len(pool.items) < MaxPooled
    /\ \E e \in UsedEntries \cup (IF pool.op = "Get" THEN {pool.e} ELSE {}) :
          pool' = [items |-> Append(pool.items, e), op |-> "Put", e |-> e]
    /\ UNCHANGED notPoolVars

\* buffer.Get() when Pool.Get returns the pooled object i
PoolGetPooled ==
    /\ \E i \in 1..Len(pool.items) :
          pool' = [items |-> RemoveAt(pool.items, i), op |-> "Get",
                   e |-> GetReset(pool.items[i])]
    /\ UNCHANGED notPoolVars

\* buffer.Get() when Pool.Get has nothing to hand out and calls New
PoolGetNew ==
    /\ pool' = [items |-> pool.items, op |-> "Get", e |-> GetReset(PoolNew)]
    /\ UNCHANGED notPoolVars

\* sync.Pool drops a pooled object (garbage collection)
PoolDrop ==
    /\ \E i \in 1..Len(pool.items) :
          pool' = [pool EXCEPT !.items = RemoveAt(@, i)]
    /\ UNCHANGED notPoolVars

NextPool == PoolPut \/ PoolGetPooled \/ PoolGetNew \/ PoolDrop

SpecPool == InitPool /\ [][NextPool]_vars

----------------------------------------------------------------------------
(* source.FileSource on its own, with a writer that appends to the file    *)
(* while it is read: whole lines, or a line in two writes.                 *)

InitFile ==
    /\ \E follow \in BOOLEAN : Started("file", follow)
    /\ RingIdle /\ CtxIdle /\ RateIdle /\ ChainIdle /\ PipeIdle /\ GrokIdle /\ ExtIdle

NextFile ==
    \/ ReaderScan(1) \/ ReaderSelect(1) \/ ReaderAdd(1) \/ ReaderSend(1) \/ ReaderPoll(1)
    \/ InputLine(1) \/ FileWritePartial \/ FileWriteRest
    \/ Cancel \/ SrcReceive

SpecFile == InitFile /\ [][NextFile]_vars

----------------------------------------------------------------------------
(* entry.ParseLevel.  A level name is the sequence of its characters, so   *)
(* that spellings which differ in the case of a letter are different       *)
(* strings, as they are for the switch of ParseLevel.                      *)

LetterPairs ==
    { <<"A", "a">>, <<"B", "b">>, <<"C", "c">>, <<"D", "d">>, <<"E", "e">>, <<"F", "f">>,
      <<"G", "g">>, <<"I", "i">>, <<"L", "l">>, <<"N", "n">>, <<"O", "o">>, <<"P", "p">>,
      <<"R", "r">>, <<"T", "t">>, <<"U", "u">>, <<"W", "w">> }

LowerChar(c) == IF \E p \in LetterPairs : p[1] = c
                THEN (CHOOSE p \in LetterPairs : p[1] = c)[2] ELSE c
UpperChar(c) == IF \E p \in LetterPairs : p[2] = c
                THEN (CHOOSE p \in LetterPairs : p[2] = c)[1] ELSE c

\* strings.ToUpper / strings.ToLower on a sequence of characters
UpperCase(s) == [i \in 1..Len(s) |-> UpperChar(s[i])]
LowerCase(s) == [i \in 1..Len(s) |-> LowerChar(s[i])]

\* "Debug" from "DEBUG": the first letter upper-case, the others lower-case
Capitalized(s) == [i \in 1..Len(s) |-> IF i = 1 THEN UpperChar(s[i]) ELSE LowerChar(s[i])]

NameDEBUG == <<"D", "E", "B", "U", "G">>
NameINFO == <<"I", "N", "F", "O">>
NameWARN == <<"W", "A", "R", "N">>
NameWARNING == <<"W", "A", "R", "N", "I", "N", "G">>
NameERROR == <<"E", "R", "R", "O", "R">>
NameERR == <<"E", "R", "R">>
NameFATAL == <<"F", "A", "T", "A", "L">>
NamePANIC == <<"P", "A", "N", "I", "C">>

LevelNames == {NameDEBUG, NameINFO, NameWARN, NameWARNING, NameERROR, NameERR,
               NameFATAL, NamePANIC}

\* The switch of ParseLevel: every case lists the spellings it accepts.
ParseLevel(s) ==
    IF s \in {NameDEBUG, LowerCase(NameDEBUG), Capitalized(NameDEBUG)} THEN LevelDebug
    ELSE IF s \in {NameINFO, LowerCase(NameINFO), Capitalized(NameINFO)} THEN LevelInfo
    ELSE IF s \in {NameWARN, LowerCase(NameWARN), Capitalized(NameWARN),
                   NameWARNING, LowerCase(NameWARNING)} THEN LevelWarn
    ELSE IF s \in {NameERROR, LowerCase(NameERROR), Capitalized(NameERROR),
                   NameERR, LowerCase(NameERR)} THEN LevelError
    ELSE IF s \in {NameFATAL, LowerCase(NameFATAL), Capitalized(NameFATAL),
                   NamePANIC, LowerCase(NamePANIC)} THEN LevelFatal
    ELSE LevelUnknown

\* Every spelling of name in upper- and lower-case letters.
RECURSIVE CaseVariants(_)
CaseVariants(name) ==
    IF Len(name) = 0 THEN {<<>>}
    ELSE {<<c>> \o t : c \in {Head(name), LowerChar(Head(name))},
                      t \in CaseVariants(Tail(name))}

\* What the --level flag may be given: any casing of a level name.
LevelFlags == UNION {CaseVariants(name) : name \in LevelNames}

notParseVars == <<ringVars, ctxVars, rateVars, chainVars, pipeVars, grokVars, srcVars,
                  alertVars, rc, dl, rdLast, tui, pool, model>>

InitParse ==
    /\ \E s \in LevelFlags : pl = [s |-> s, called |-> FALSE, level |-> LevelUnknown]
    /\ RingIdle /\ CtxIdle /\ RateIdle /\ ChainIdle /\ PipeIdle /\ GrokIdle /\ SrcIdle
    /\ AlertIdle /\ ConcIdle /\ LevelIdle /\ AccessIdle /\ TuiIdle
    /\ PoolIdle /\ ModelIdle

\* buildFilterChain: parsed := entry.ParseLevel(l)
ParseCall ==
    /\ ~pl.called
    /\ pl' = [pl EXCEPT !.called = TRUE, !.level = ParseLevel(pl.s)]
    /\ UNCHANGED notParseVars

\* The next value of the --level flag.
ParseNextFlag ==
    /\ pl.called
    /\ \E s \in LevelFlags : pl' = [s |-> s, called |-> FALSE, level |-> LevelUnknown]
    /\ UNCHANGED notParseVars

NextParse == ParseCall \/ ParseNextFlag

SpecParse == InitParse /\ [][NextParse]_vars

----------------------------------------------------------------------------
(* tui.Model: Update on key presses and LogMsg, and View.  A log line is   *)
(* the sequence of the characters of its text, tagged with the number of   *)
(* its arrival; the search query is a sequence of characters.  arrived is  *)
(* the history of the lines handed to handleLog, visible the bounds of the *)
(* last getVisibleLogs, flushed the number of queued lines the last resume *)
(* appended to logs.                                                       *)

ModelMaxLines == 2      \* maxLines of the model (1000 in NewModel)
MaxArrived == 4         \* LogMsg messages in a run
MaxQuery == 1           \* characters typed into the search bar
MaxViewport == 2        \* largest viewportHeight

Keys == {"up", "k", "down", "j", "g", "G", "p", "/", "esc", "enter", "backspace",
         "q", "e"}

\* len(msg.String()) == 1
IsChar(key) == key \notin {"up", "down", "esc", "enter", "backspace", "ctrl+c"}

LineTexts == { <<"e", "g", "g">>, <<"p", "e", "e", "k">> }

NewModel(maxLines) ==
    [pc |-> "running", logs |-> <<>>, maxLines |-> maxLines, scrollPos |-> 0,
     paused |-> FALSE, pauseQueue |-> <<>>, searching |-> FALSE, searchQuery |-> <<>>,
     searchResult |-> <<>>, arrived |-> <<>>, visible |-> <<>>, flushed |-> 0]

trimLogsKeepsOldest(m) ==
    IF Len(m.logs) > m.maxLines THEN [m EXCEPT !.logs = SubSeq(@, 1, m.maxLines)] ELSE m

\* Model.trimLogs
trimLogs(m) ==
    IF Len(m.logs) > m.maxLines
    THEN [m EXCEPT !.logs = SubSeq(@, Len(@) - m.maxLines + 1, Len(@))]
    ELSE m

\* The indices (from 0) of the lines of logs that contain the query.
RECURSIVE MatchingIndices(_, _, _)
MatchingIndices(logs, query, i) ==
    IF i > Len(logs) THEN <<>>
    ELSE (IF Contains(logs[i].text, query) THEN <<i - 1>> ELSE <<>>) \o
         MatchingIndices(logs, query, i + 1)

\* Model.performSearch
performSearch(m) ==
    IF Len(m.searchQuery) = 0 THEN [m EXCEPT !.searchResult = <<>>]
    ELSE LET res == MatchingIndices(m.logs, m.searchQuery, 1)
         IN IF Len(res) > 0
            THEN [m EXCEPT !.searchResult = res,
                           !.scrollPos = Len(m.logs) - res[Len(res)] - 1]
            ELSE [m EXCEPT !.searchResult = res]

\* Model.handleKey
handleKey(m, key) ==
    IF m.searching
    THEN CASE key = "esc" ->
                [m EXCEPT !.searching = FALSE, !.searchQuery = <<>>, !.searchResult = <<>>]
           [] key = "enter" -> performSearch([m EXCEPT !.searching = FALSE])
           [] key = "backspace" ->
                IF Len(m.searchQuery) > 0
                THEN [m EXCEPT !.searchQuery = SubSeq(@, 1, Len(@) - 1)] ELSE m
           [] OTHER -> IF IsChar(key) THEN [m EXCEPT !.searchQuery = Append(@, key)] ELSE m
    ELSE CASE key \in {"q", "ctrl+c"} -> [m EXCEPT !.pc = "quit"]
           [] key = "p" ->
                IF m.paused
                THEN trimLogs([m EXCEPT !.paused = FALSE, !.logs = @ \o m.pauseQueue,
                                        !.pauseQueue = <<>>])
                ELSE [m EXCEPT !.paused = TRUE]
           [] key = "/" ->
                [m EXCEPT !.searching = TRUE, !.searchQuery = <<>>, !.searchResult = <<>>]
           [] key \in {"up", "k"} ->
                IF m.scrollPos < Len(m.logs) - 1 THEN [m EXCEPT !.scrollPos = @ + 1] ELSE m
           [] key \in {"down", "j"} ->
                IF m.scrollPos > 0 THEN [m EXCEPT !.scrollPos = @ - 1] ELSE m
           [] key = "g" -> [m EXCEPT !.scrollPos = 0]
           [] key = "G" -> [m EXCEPT !.scrollPos = Len(m.logs) - 1]
           [] OTHER -> m

\* Model.handleLog on the formatted line
handleLog(m, line) ==
    IF m.paused THEN [m EXCEPT !.pauseQueue = Append(@, line)]
    ELSE trimLogs([m EXCEPT !.logs = Append(@, line)])

\* Model.getVisibleLogs: the indices start..end-1 (from 0) it reads from
\* logs; ok is false when one of them is outside logs (the read panics).
getVisibleLogs(m, height) ==
    IF Len(m.logs) = 0 THEN [start |-> 0, end |-> 0, ok |-> TRUE]
    ELSE LET end0 == Len(m.logs) - m.scrollPos
             end == IF end0 < 0 THEN 0 ELSE end0
             start == IF end - height < 0 THEN 0 ELSE end - height
         IN [start |-> start, end |-> end,
             ok |-> \A i \in start..(end - 1) : 0 <= i /\ i < Len(m.logs)]

notModelVars == <<ringVars, ctxVars, rateVars, chainVars, pipeVars, grokVars, srcVars,
                  alertVars, rc, dl, rdLast, tui, pool, pl>>

InitModel ==
    /\ model = NewModel(ModelMaxLines)
    /\ RingIdle /\ CtxIdle /\ RateIdle /\ ChainIdle /\ PipeIdle /\ GrokIdle /\ SrcIdle
    /\ AlertIdle /\ ConcIdle /\ LevelIdle /\ AccessIdle /\ TuiIdle
    /\ PoolIdle /\ ParseIdle

\* Update(tea.KeyMsg)
ModelKey ==
    /\ model.pc = "running"
    /\ \E key \in Keys :
          /\ (model.searching /\ IsChar(key)) => Len(model.searchQuery) < MaxQuery
          /\ model' = [handleKey(model, key) EXCEPT
                         !.flushed = IF key = "p" /\ ~model.searching /\ model.paused
                                     THEN Len(model.pauseQueue) ELSE @]
    /\ UNCHANGED notModelVars

\* Update(LogMsg)
ModelLog ==
    /\ model.pc = "running"
    /\ Len(model.arrived) < MaxArrived
    /\ \E text \in LineTexts :
          LET line == [n |-> Len(model.arrived) + 1, text |-> text]
          IN model' = [handleLog(model, line) EXCEPT !.arrived = Append(@, line)]
    /\ UNCHANGED notModelVars

\* View() with a window that leaves viewportHeight lines for the logs
ModelView ==
    /\ model.pc = "running"
    /\ \E height \in 1..MaxViewport :
          LET v == getVisibleLogs(model, height)
          IN model' = [model EXCEPT !.visible = <<v.start, v.end>>,
                                    !.pc = IF v.ok THEN @ ELSE "panicked"]
    /\ UNCHANGED notModelVars

NextModel == ModelKey \/ ModelLog \/ ModelView

SpecModel == InitModel /\ [][NextModel]_vars

----------------------------------------------------------------------------
(* Properties of pipeline.Run (checked under Spec).                        *)

SourceWasStarted == ret.err \notin {"source", "sinks", "start"}

AnyDrainFailure == \E t \in 1..Len(sinks) : sinks[t].flushFailed \/ sinks[t].closeFailed

\* The first Flush or Close that returned an error, in registration order.
FirstDrainFailure ==
    LET t == CHOOSE u \in 1..Len(sinks) :
                 /\ sinks[u].flushFailed \/ sinks[u].closeFailed
                 /\ \A v \in 1..(u - 1) : ~(sinks[v].flushFailed \/ sinks[v].closeFailed)
    IN IF sinks[t].flushFailed THEN Error("flush", t) ELSE Error("close", t)

\* C1: when Run returns after having started the source, every registered
\* sink has received its Flush and its Close, also when a Write, Flush or
\* Close of some sink failed.
C1_EverySinkFlushedAndClosed ==
    (pc = "done" /\ SourceWasStarted) =>
        \A t \in 1..Len(sinks) : sinks[t].flushes >= 1 /\ sinks[t].closes >= 1

\* C2: when a Flush or Close failed during draining, Run returns the first
\* such failure in registration order; it returns nil only if no sink failed.
C2_FirstDrainFailureReturned ==
    pc = "done" =>
        /\ AnyDrainFailure => ret = FirstDrainFailure
        /\ ret = NoError => ~AnyDrainFailure

----------------------------------------------------------------------------
(* Properties of the context buffer (checked under SpecCtx).               *)

Msgs(es) == [i \in 1..Len(es) |-> es[i].msg]

CtxIsMatch(i) == ChainMatch(cb.filter, cbFed[i]).ok

OnlyCMatches == \A m \in LetterLines : ChainMatch(cb.filter, NewEntry(0, m)).ok <=> m = <<"c">>

FedABCDE ==
    /\ cb.beforeN = 2
    /\ cb.afterN = 1
    /\ OnlyCMatches
    /\ Msgs(cbFed) = << <<"a">>, <<"b">>, <<"c">>, <<"d">>, <<"e">> >>

\* C3 (as claimed): with before=2, after=1 and the lines a,b,c,d,e of which
\* only c matches, the output is exactly b,c,d.
C3_OutputIsBCD == FedABCDE => Msgs(cbOut) = << <<"b">>, <<"c">>, <<"d">> >>

\* C3 (amended): with before=2, after=1 and the lines a,b,c,d,e of which
\* only c matches, the output is exactly a,b,c,d: the two lines before the
\* match are emitted with it, and e is not emitted.
C3_OutputIsABCD ==
    FedABCDE => Msgs(cbOut) = << <<"a">>, <<"b">>, <<"c">>, <<"d">> >>

C3_Witness == FedABCDE /\ Len(cbOut) = 4

\* The lines grep -B before -A after prints: line i is printed when some
\* match j has j - before <= i <= j + after; each line once, in input order.
GrepSelected(i) ==
    \E j \in 1..Len(cbFed) : CtxIsMatch(j) /\ j - cb.beforeN <= i /\ i <= j + cb.afterN

RECURSIVE GrepPrefix(_)
GrepPrefix(n) ==
    IF n = 0 THEN <<>>
    ELSE IF GrepSelected(n) THEN Append(GrepPrefix(n - 1), cbFed[n])
    ELSE GrepPrefix(n - 1)

\* C4: for before >= 0 and after >= 0 the concatenated output of Process is
\* the grep -B/-A output: the matches and the lines within `before` lines
\* before or `after` lines after a match, in input order, each exactly once.
C4_OutputIsGrepOutput ==
    (cb.beforeN >= 0 /\ cb.afterN >= 0) => cbOut = GrepPrefix(Len(cbFed))

\* C5: the step rule of Process.  On a match the result is the
\* min(before, entries seen earlier) entries immediately before the current
\* one, oldest first, then the current entry; on a non-match with a positive
\* after-counter it is the current entry alone and the counter drops by one;
\* otherwise it is empty.
C5_ProcessStepRule ==
    Len(cbFed) >= 1 =>
        LET n == Len(cbFed)
            k == Min(cb.beforeN, n - 1)
        IN IF cbLast.isMatch
           THEN cbLast.result = SubSeq(cbFed, n - k, n - 1) \o <<cbFed[n]>>
           ELSE IF cbLast.afterBefore > 0
           THEN cbLast.result = <<cbFed[n]>> /\ cb.afterCount = cbLast.afterBefore - 1
           ELSE cbLast.result = <<>>

\* A match that returned two "before" entries after the history wrapped
\* around, and a non-match emitted by a positive after-counter.
C5_Witness ==
    /\ Len(cbFed) = 5
    /\ cbLast.isMatch
    /\ Len(cbLast.result) = 3
    /\ cb.afterN = 2
    /\ \E i \in 1..Len(cbOut) : cbOut[i].seq = 2 /\ ~CtxIsMatch(2) /\ CtxIsMatch(1)

----------------------------------------------------------------------------
(* Properties of the ring buffer (checked under SpecRing).                 *)

LastOf(q, n) == SubSeq(q, Len(q) - n + 1, Len(q))

\* C6: after N > C pushes into a ring of capacity C, Snapshot returns
\* exactly the C most recently pushed entries, oldest first, and Dropped
\* equals N - C.
C6_SnapshotAfterOverflow ==
    Len(ringPushed) > ring.capacity =>
        /\ Len(Snapshot(ring)) = ring.capacity
        /\ Snapshot(ring) = LastOf(ringPushed, ring.capacity)
        /\ Dropped(ring) = Len(ringPushed) - ring.capacity

C6_Witness ==
    /\ ring.capacity = 3
    /\ Len(ringPushed) = 5
    /\ ring.head = 2
    /\ Snapshot(ring)[1] # Snapshot(ring)[3]

\* The effect of one Push on count, dropped and the stored entries.
PushEffect ==
    ringPushed' # ringPushed =>
        IF ring.count < ring.capacity
        THEN ring'.count = ring.count + 1 /\ ring'.dropped = ring.dropped
        ELSE /\ ring'.count = ring.count
             /\ ring'.dropped = ring.dropped + 1
             /\ ring.entries[ring.head] = Snapshot(ring)[1]
             /\ \A i \in DOMAIN ring.entries :
                    i # ring.head => ring'.entries[i] = ring.entries[i]
             /\ ring'.entries[ring.head] = ringPushed'[Len(ringPushed')]
             /\ Snapshot(ring') = Append(Tail(Snapshot(ring)), ringPushed'[Len(ringPushed')])

\* C7: count <= capacity always; a Push below capacity adds one to count
\* and leaves dropped alone; a Push at capacity leaves count alone,
\* overwrites exactly the oldest entry and adds one to dropped.
C7_PushCounts == [](ring.count <= ring.capacity) /\ [][PushEffect]_vars

C7_Witness == ring.capacity = 2 /\ ring.count = 2 /\ ring.dropped = 2

----------------------------------------------------------------------------
(* Properties of the rate detector (checked under SpecRate).               *)

\* The calls of Record so far are 1, 1, 1 and then up to 10 calls in four
\* consecutive seconds.
OneOneOneTen ==
    /\ Len(rdLog) >= 1
    /\ Len(rdLog) <= 13
    /\ \A i \in 1..Len(rdLog) :
          rdLog[i].sec = rdLog[1].sec + Second * (IF i <= 3 THEN i - 1 ELSE 3)

\* C8 (as claimed): with threshold 3, Record returns true on the call that
\* brings the fourth bucket to 10 events and false on every earlier call.
C8_SpikeOnlyOnTenth ==
    (rd.threshold = 3 /\ OneOneOneTen) =>
        \A i \in 1..Len(rdLog) : rdLog[i].spike <=> i = 13

\* C8 (amended): with threshold 3 and a window of at least four seconds,
\* Record returns false on the calls of the first three seconds and on the
\* first three calls of the fourth second, and true on every later call of
\* the fourth second, from the one that brings its bucket to 4 events
\* (4 > 3 x 1) up to the one that brings it to 10.
C8_SpikeFromFourth ==
    (rd.threshold = 3 /\ rd.window >= 4 * Second /\ OneOneOneTen) =>
        \A i \in 1..Len(rdLog) : rdLog[i].spike <=> i >= 7

C8_Witness ==
    /\ rd.threshold = 3
    /\ rd.window = 4 * Second
    /\ OneOneOneTen
    /\ Len(rdLog) = 13
    /\ rdLog[13].spike
    /\ rd.buckets = <<1, 1, 1, 10>>

\* The seconds of the recorded events that are not before now - window at
\* the last call of Record, and the number of events in each.
RetainedSeconds == {rdLog[i].sec : i \in {j \in 1..Len(rdLog) : rdLog[j].sec >= rdLastAt - rd.window}}

EventsIn(sec) == Cardinality({i \in 1..Len(rdLog) : rdLog[i].sec = sec})

EventsRetained == Cardinality({i \in 1..Len(rdLog) : rdLog[i].sec >= rdLastAt - rd.window})

\* C9: Record returns true iff, after pruning and counting the event, there
\* are at least 3 buckets and the latest bucket's count is greater than
\* threshold times the average of the other buckets.
C9_RecordIffSpike ==
    Len(rdLog) >= 1 =>
        LET latest == EventsIn(Truncate(rdLastAt))
            others == Cardinality(RetainedSeconds) - 1
        IN rdLog[Len(rdLog)].spike <=>
              /\ Cardinality(RetainedSeconds) >= 3
              /\ latest * others > rd.threshold * (EventsRetained - latest)

\* A spike reported after a bucket had been pruned.
C9_Witness ==
    /\ Len(rdLog) >= 1
    /\ rdLog[Len(rdLog)].spike
    /\ Len(rd.buckets) = 3
    /\ Cardinality({rdLog[i].sec : i \in 1..Len(rdLog)}) = 4

----------------------------------------------------------------------------
(* Properties of the filter chain (checked under SpecChain).               *)

ErrorNoHealthcheck ==
    ChainAdd(ChainAdd(NewChain(MatchAll), KeywordFilter(<<"ERROR">>)),
             ExcludeFilter(<< <<"healthcheck">> >>))

\* C10: on a non-empty chain Match is true in match-all mode iff every
\* predicate matches the entry, in match-any mode iff at least one does; the
\* match-all chain {keyword ERROR, exclude healthcheck} rejects
\* "ERROR healthcheck failed" and accepts "ERROR disk full".
C10_ChainMatchModes ==
    (chLast.called /\ ChainLen(chLast.chain) > 0) =>
        LET fs == chLast.chain.filters
        IN /\ chLast.chain.mode = MatchAll =>
                (chLast.ok <=> \A i \in 1..Len(fs) : FilterMatch(fs[i], chLast.e).ok)
           /\ chLast.chain.mode = MatchAny =>
                (chLast.ok <=> \E i \in 1..Len(fs) : FilterMatch(fs[i], chLast.e).ok)
           /\ (chLast.chain = ErrorNoHealthcheck /\ chLast.e.msg = ErrorHealthcheckFailed)
                => ~chLast.ok
           /\ (chLast.chain = ErrorNoHealthcheck /\ chLast.e.msg = ErrorDiskFull)
                => chLast.ok

C10_Witness ==
    /\ chLast.called
    /\ chLast.chain = ErrorNoHealthcheck
    /\ chLast.e.msg = ErrorDiskFull
    /\ chLast.ok

\* The chain pipeline.Run was configured with: the context buffer's wrapped
\* chain in context mode, cfg.Filters otherwise (no filter when it is nil).
ConfiguredFilters ==
    IF cfg.hasContext THEN cb.filter.filters
    ELSE IF cfg.hasFilters THEN chain.filters
    ELSE <<>>

ContainsExcluded(e) ==
    \E i \in 1..Len(ConfiguredFilters) :
        /\ ConfiguredFilters[i].kind = "exclude"
        /\ \E j \in 1..Len(ConfiguredFilters[i].pats) :
              Contains(e.msg, ConfiguredFilters[i].pats[j])

\* C11: an entry whose message contains any of the exclude substrings is
\* never written to any sink, whatever the match mode and the other filters.
C11_ExcludedNeverDelivered ==
    \A t \in 1..Len(sinks) : \A i \in 1..Len(sinks[t].written) :
        ~ContainsExcluded(sinks[t].written[i])

\* The entry as the loop of Run sees it after level detection.
Detected(e0) ==
    IF e0.level = LevelUnknown THEN [e0 EXCEPT !.level = DetectLevel(e0.msg)] ELSE e0

NoWriteFailed == \A t \in 1..Len(sinks) : ~sinks[t].writeFailed

\* C12: Chain.Match of a chain with no predicate is true in both match
\* modes, and with an empty or nil chain and no context window Run writes
\* every entry of the source to every sink.
C12_EmptyChainMatchesAll ==
    /\ (chLast.called /\ ChainLen(chLast.chain) = 0) => chLast.ok
    /\ (/\ ~cfg.hasContext
        /\ ~cfg.hasFilters \/ ChainLen(chain) = 0
        /\ NoWriteFailed)
       => \A t \in 1..Len(sinks) :
             sinks[t].written = [i \in 1..Len(srcLog) |-> Detected(srcLog[i])]

C12_Witness ==
    /\ ~cfg.hasContext /\ cfg.hasFilters
    /\ chain = NewChain(MatchAll)
    /\ Len(srcLog) = 3
    /\ srcLog[1].msg = <<"healthcheck", "ok">>
    /\ Len(sinks) = 2
    /\ Len(sinks[2].written) = 3
    /\ pc = "done" /\ ret = NoError

\* The entries of es the plain branch of Run lets through, as it writes them.
RECURSIVE PlainMatching(_)
PlainMatching(es) ==
    IF es = <<>> THEN <<>>
    ELSE LET e == Detected(Head(es))
             m == ChainMatch(chain, e)
         IN IF ~cfg.hasFilters \/ ChainLen(chain) = 0 THEN <<e>> \o PlainMatching(Tail(es))
            ELSE IF m.ok THEN <<m.e>> \o PlainMatching(Tail(es))
            ELSE PlainMatching(Tail(es))

\* C15: when the source yields n entries and closes, with a plain filter
\* chain and sinks whose writes never fail, every sink received exactly the
\* matching entries in source order, Total is n and Matched is the number
\* of matching entries.
C15_PlainRunDelivers ==
    (pc = "done" /\ ret = NoError /\ ~cfg.hasContext) =>
        /\ \A t \in 1..Len(sinks) : sinks[t].written = PlainMatching(srcLog)
        /\ stats.totalLines = Len(srcLog)
        /\ stats.matchedLines = Len(PlainMatching(srcLog))

\* Five lines with ERROR in the second and the fourth: two entries delivered,
\* Total 5, Matched 2.
C15_Witness ==
    /\ pc = "done" /\ ret = NoError
    /\ chain = ChainAdd(NewChain(MatchAny), KeywordFilter(<<"ERROR">>))
    /\ Msgs(srcLog) = << <<"INFO", "disk", "ok">>, <<"ERROR", "disk", "full">>,
                         <<"healthcheck", "ok">>, <<"ERROR", "healthcheck", "failed">>,
                         <<"INFO", "disk", "ok">> >>
    /\ \A t \in 1..Len(sinks) :
          Msgs(sinks[t].written) = << <<"ERROR", "disk", "full">>,
                                      <<"ERROR", "healthcheck", "failed">> >>
    /\ stats = [totalLines |-> 5, matchedLines |-> 2]

----------------------------------------------------------------------------
(* Properties of parser.GrokParser (checked under SpecGrok).               *)

PatternFields == {gp.pattern[i].field : i \in 1..Len(gp.pattern)} \ {""}

\* The text of the message the i-th token of the pattern matched.
TokenText(i) ==
    LET msg == gLast.before.msg
        spans == GroupSpans(gp.regex, msg, 1, LeftmostStart(gp.regex, msg, 1))
    IN SubSeq(msg, spans[i][1], spans[i][2] - 1)

IPClientWordMethod == <<Token("IP", "client"), Token("WORD", "method")>>

\* C13: for a pattern of named and anonymous tokens in any order, after a
\* successful Parse the field map holds the text each named token matched
\* under the token's field name (the last token of a name when a name is
\* used twice) and keeps every other field it held before;
\* %{IP:client} %{WORD:method} on "10.0.0.1 GET" gives client = 10.0.0.1
\* and method = GET.
C13_NamedCapturesStored ==
    (gLast.called /\ gLast.ok) =>
        /\ ~ge.fields.nil
        /\ \A i \in 1..Len(gp.pattern) :
              (/\ gp.pattern[i].field # ""
               /\ \A j \in (i + 1)..Len(gp.pattern) :
                     gp.pattern[j].field # gp.pattern[i].field)
              => /\ gp.pattern[i].field \in DOMAIN ge.fields.m
                 /\ ge.fields.m[gp.pattern[i].field] = TokenText(i)
        /\ \A k \in DOMAIN gLast.before.fields.m :
              k \notin PatternFields =>
                 /\ k \in DOMAIN ge.fields.m
                 /\ ge.fields.m[k] = gLast.before.fields.m[k]
        /\ (/\ gp.pattern = IPClientWordMethod
            /\ gLast.before.msg = <<"10", ".", "0", ".", "0", ".", "1", " ", "GET">>)
           => /\ ge.fields.m["client"] = <<"10", ".", "0", ".", "0", ".", "1">>
              /\ ge.fields.m["method"] = <<"GET">>

\* C14: when the message does not match the pattern, Parse returns false
\* and leaves the entry as it was; a nil field map stays nil.
C14_NoMatchLeavesEntry ==
    (/\ gLast.called
     /\ \A pos \in 1..Len(gLast.before.msg) :
           GroupSpans(gp.regex, gLast.before.msg, 1, pos) = <<>>)
    => /\ ~gLast.ok
       /\ ge = gLast.before
       /\ gLast.before.fields.nil => ge.fields.nil

C14_Witness ==
    /\ gLast.called /\ ~gLast.ok
    /\ gp.pattern = IPClientWordMethod
    /\ gLast.before = [msg |-> <<"not", "-", "an", "-", "ip", " ", "GET">>,
                       fields |-> NilFields]
    /\ ge.fields.nil

----------------------------------------------------------------------------
(* Properties of the source adapters (checked under SpecSrc).              *)

\* C16: for every adapter, once ctx is done and the consumer keeps
\* receiving, the channel is eventually closed even when the input yields
\* no further line: as long as the channel is open after the cancellation,
\* a goroutine of the adapter or the consumer can take a step.
C16_CancelledSourceCanClose ==
    (srcSt.ctxDone /\ ~ch.closed) => ENABLED (SrcStep \/ SrcReceive)

\* C17: in the docker adapter each of the two readers signals its
\* completion on every path on which it exits.
C17_DockerReaderSignals ==
    srcSt.kind = "docker" =>
        \A r \in DOMAIN readers : readers[r].pc = "exited" => readers[r].signalled

\* C19: for exec and docker the channel is closed only after both readers
\* have exited and the child process has been waited on, and no reader
\* sends on the closed channel.
C19_ClosedAfterReadersAndWait ==
    /\ ~srcSt.panicked
    /\ (TwoReaders(srcSt.kind) /\ ch.closed) =>
          /\ \A r \in DOMAIN readers : readers[r].pc = "exited"
          /\ srcSt.procExited
          /\ srcSt.closer = "exited"

C19_Witness ==
    /\ srcSt.kind = "exec"
    /\ ch.closed
    /\ Len(recvd) = 3
    /\ readers[1].pc = "exited" /\ readers[2].pc = "exited"

\* C20: the entries received from the channel carry strictly increasing
\* sequence numbers that start at 1, in the order of reception, for every
\* adapter.
C20_SeqIncreasingFromOne ==
    /\ recvd # <<>> => recvd[1].seq = 1
    /\ \A i \in 1..Len(recvd) : \A j \in 1..Len(recvd) :
          i < j => recvd[i].seq < recvd[j].seq

----------------------------------------------------------------------------
(* Properties of pipeline.Run on a source adapter (checked under           *)
(* SpecRunSrc).                                                            *)

\* C18: when the context is cancelled while Run is streaming, Run
\* eventually returns nil, having flushed and closed every sink: as long as
\* Run is in its loop after the cancellation, a goroutine of the source or
\* Run itself can take a step, and a Run that has returned after the
\* cancellation returned nil with every sink flushed and closed.
C18_CancelledRunReturns ==
    /\ (srcSt.ctxDone /\ pc = "streaming") => ENABLED (SrcStep \/ RunRecv \/ RunClosed)
    /\ (srcSt.ctxDone /\ pc = "done" /\ NoWriteFailed) =>
          /\ ret = NoError
          /\ \A t \in 1..Len(sinks) : sinks[t].flushes = 1 /\ sinks[t].closes = 1

\* C21: no reader stays blocked forever on a send to the bounded channel,
\* also when Run has stopped consuming: the channel never holds more than
\* its capacity, and once Run has returned a reader that is at its send
\* finds room in the channel.
C21_NoReaderBlockedOnSend ==
    /\ Len(ch.buf) <= ChanCap
    /\ \A r \in DOMAIN readers :
          (pc = "done" /\ readers[r].pc = "send") =>
              (ch.closed \/ Len(ch.buf) < ChanCap)

----------------------------------------------------------------------------
(* Further properties of pipeline.Run (checked under Spec).                *)

\* C22: when Run fails before streaming (nil source, no sink, or Start
\* returning an error) it returns a non-nil error, no sink has seen a
\* Write, a Flush or a Close, Stats and the ring buffer are untouched, and
\* with a nil source or no sink Source.Start was never called.
C22_FailedStartNoSideEffects ==
    (pc = "done" /\ (~cfg.hasSource \/ Len(sinks) = 0 \/ cfg.startFails)) =>
        /\ ret.err # "nil"
        /\ \A t \in 1..Len(sinks) : sinks[t] = NewSink
        /\ stats = [totalLines |-> 0, matchedLines |-> 0]
        /\ ring = NewRing(PipeRingCapacity) /\ ringPushed = <<>>
        /\ (~cfg.hasSource \/ Len(sinks) = 0) => startCalls = 0

C22_Witness ==
    /\ pc = "done"
    /\ cfg.hasSource /\ cfg.startFails /\ cfg.hasRing
    /\ Len(sinks) = 2
    /\ startCalls = 1
    /\ ret = Error("start", 0)

IsPrefix(a, b) == Len(a) <= Len(b) /\ a = SubSeq(b, 1, Len(a))

\* The entries Run has to deliver: the output of the context window, or
\* the entries that pass the filter chain.
Delivered == IF cfg.hasContext THEN cbOut ELSE PlainMatching(srcLog)

WritesInOrder ==
    \A t \in 1..Len(sinks) :
        /\ IsPrefix(sinks[t].written, Delivered)
        /\ NoWriteFailed => sinks[t].written = Delivered
        /\ \A s \in 1..(t - 1) :
              /\ Len(sinks[t].written) <= Len(sinks[s].written)
              /\ Len(sinks[s].written) <= Len(sinks[t].written) + 1

NoWriteAfterDrain ==
    \A t \in 1..Len(sinks) :
        (sinks[t].flushes > 0 \/ sinks[t].closes > 0) =>
            sinks'[t].written = sinks[t].written

\* C23: every entry that survives filtering (or that the context window
\* outputs) is written to every sink in registration order, every sink
\* receives surviving entry k before any sink receives entry k+1, and no
\* sink is written to after its Flush or Close.
C23_WritesInRegistrationOrder == []WritesInOrder /\ [][NoWriteAfterDrain]_vars

C23_Witness ==
    /\ pc = "done" /\ ret = NoError
    /\ cfg.hasContext
    /\ Len(sinks) = 2
    /\ Len(sinks[2].written) = 3
    /\ sinks[2].flushes = 1 /\ sinks[2].closes = 1

\* C28: level detection runs at most once per entry: for every entry that
\* flows through Run, whatever the number of Level filters of the chain,
\* and also for a message without a level token.
C28_DetectAtMostOnce == detects <= 1

----------------------------------------------------------------------------
(* Properties of monitor.AlertEngine (checked under SpecAlert).            *)

\* The names of the rules i.. whose pattern occurs in msg, in rule order.
RECURSIVE MatchingRuleNames(_, _, _)
MatchingRuleNames(rules, msg, i) ==
    IF i > Len(rules) THEN <<>>
    ELSE (IF Contains(msg, rules[i].pattern) THEN <<rules[i].name>> ELSE <<>>)
         \o MatchingRuleNames(rules, msg, i + 1)

CountSum == IF alerts = <<>> THEN 0
            ELSE LET S[i \in 0..Len(alerts)] == IF i = 0 THEN 0 ELSE S[i - 1] + alerts[i].count
                 IN S[Len(alerts)]

AlertCallEffect ==
    /\ Len(alerts') = Len(alerts)
    /\ \A i \in 1..Len(alerts) :
          /\ alerts'[i].count >= alerts[i].count
          /\ alerts'[i].name = alerts[i].name
          /\ alLast'.op = "Check" =>
                alerts'[i].count = alerts[i].count +
                    (IF Contains(alLast'.msg, alerts[i].pattern) THEN 1 ELSE 0)
          /\ alLast'.op # "Check" => alerts'[i].count = alerts[i].count
    /\ alLast'.op = "Check" => alLast'.result = MatchingRuleNames(alerts, alLast'.msg, 1)

\* C24: over any sequence of Check, Summary and TotalAlerts no hit counter
\* decreases; a Check adds exactly one to the counter of each rule whose
\* pattern matches the message and to no other, and returns exactly the
\* names of the matching rules; TotalAlerts is the sum of the counters.
C24_AlertCounters ==
    /\ [][AlertCallEffect]_vars
    /\ [](alLast.op = "TotalAlerts" => alLast.total = CountSum)

C24_Witness ==
    /\ alLast.op = "TotalAlerts" /\ alLast.total = 3
    /\ Len(alerts) = 2
    /\ alerts[1].pattern = <<"ERROR">> /\ alerts[1].count = 2
    /\ alerts[2].pattern = <<"disk">> /\ alerts[2].count = 1

----------------------------------------------------------------------------
(* Properties of the shared buffer.Ring (checked under SpecRingConc).      *)

\* C25: with one writer in Push and readers in Snapshot, Len and Dropped,
\* every Snapshot that has returned holds the last min(pushes, capacity)
\* entries, in push order, of the pushes completed when it took the lock
\* (no push completes while it holds it), and Len and Dropped return the
\* counts of that same state.
C25_SnapshotConsistent ==
    \A i \in DOMAIN rc.readers :
        LET rdr == rc.readers[i]
            kept == Min(rdr.seen, ring.capacity)
        IN rdr.pc = "done" =>
              /\ rdr.op = "Snapshot" =>
                    rdr.result = LastOf(SubSeq(ringPushed, 1, rdr.seen), kept)
              /\ rdr.op = "Len" => rdr.value = kept
              /\ rdr.op = "Dropped" => rdr.value = rdr.seen - kept

C25_Witness ==
    /\ ring.capacity = 2
    /\ Len(ringPushed) = 3
    /\ rc.readers[1].pc = "done" /\ rc.readers[1].op = "Snapshot"
    /\ rc.readers[1].seen = 3
    /\ rc.readers[2].pc = "done" /\ rc.readers[2].op = "Snapshot"
    /\ rc.readers[2].seen = 1

----------------------------------------------------------------------------
(* Properties of filter.DetectLevel (checked under SpecLevel).             *)

\* The rows of the table: ERROR/ERR, WARN/WARNING, INFO, DEBUG/TRACE,
\* FATAL/PANIC/CRITICAL.
RowOfWord(w) ==
    CASE ToUpper(w) \in {"ERROR", "ERR"} -> 1
      [] ToUpper(w) \in {"WARN", "WARNING"} -> 2
      [] ToUpper(w) = "INFO" -> 3
      [] ToUpper(w) \in {"DEBUG", "TRACE"} -> 4
      [] ToUpper(w) \in {"FATAL", "PANIC", "CRITICAL"} -> 5
      [] OTHER -> 0

LevelOfRow(row) ==
    CASE row = 1 -> LevelError
      [] row = 2 -> LevelWarn
      [] row = 3 -> LevelInfo
      [] row = 4 -> LevelDebug
      [] row = 5 -> LevelFatal
      [] OTHER -> LevelUnknown

TokenPositions(msg) == {i \in 1..Len(msg) : RowOfWord(msg[i]) # 0}

\* C29 as stated: the result is the level of the earliest table row that
\* has a token in the message, wherever the tokens stand in the message.
C29_EarliestTableRowWins ==
    dl.called =>
        LET rows == {RowOfWord(dl.msg[i]) : i \in TokenPositions(dl.msg)}
        IN dl.level = IF rows = {} THEN LevelUnknown
                      ELSE LevelOfRow(CHOOSE r \in rows : \A q \in rows : r <= q)

\* C29 (amended): the result is the level of the leftmost level token of
\* the message, whatever the table row of that token; it is LevelUnknown
\* when the message has no level token.
C29_LeftmostTokenWins ==
    dl.called =>
        LET ps == TokenPositions(dl.msg)
        IN dl.level = IF ps = {} THEN LevelUnknown
                      ELSE LevelOfRow(RowOfWord(dl.msg[CHOOSE p \in ps : \A q \in ps : p <= q]))

C29_Witness ==
    /\ dl.called
    /\ dl.msg = <<"INFO", "disk", "ERROR">>
    /\ dl.level = LevelInfo

----------------------------------------------------------------------------
(* Properties of the accessors of monitor.RateDetector (checked under     *)
(* SpecRateAccess).                                                        *)

\* No retained bucket is older than the window at the clock reading at.
NoStaleBucket(at) ==
    \A i \in 1..Len(rd.timestamps) : rd.timestamps[i] >= at - rd.window

\* C30 as stated: after any call of Record, CurrentRate or LatestSecondRate
\* has returned, the detector retains no bucket older than now - window.
C30_PrunedAfterEveryAccess ==
    rdLast.op # "none" => NoStaleBucket(rdLast.at)

\* C30 (amended): after a call of Record or CurrentRate has returned, the
\* detector retains no bucket older than now - window; LatestSecondRate
\* does not prune.
C30_PrunedAfterRecordAndCurrentRate ==
    rdLast.op \in {"Record", "CurrentRate"} => NoStaleBucket(rdLast.at)

C30_Witness ==
    /\ rdLast.op = "CurrentRate"
    /\ Len(rdLog) = 2
    /\ rdLog[1].sec # rdLog[2].sec
    /\ Len(rd.timestamps) = 1


----------------------------------------------------------------------------
(* Properties of tui.Run beside pipeline.Run (checked under SpecTui).      *)

\* The entries of the LogMsg notifications sent so far, in order.
RECURSIVE LogEntries(_)
LogEntries(sent) ==
    IF Len(sent) = 0 THEN <<>>
    ELSE IF sent[1].type = "log" THEN <<sent[1].entry>> \o LogEntries(Tail(sent))
    ELSE LogEntries(Tail(sent))

RECURSIVE CountType(_, _)
CountType(sent, type) ==
    IF Len(sent) = 0 THEN 0
    ELSE (IF sent[1].type = type THEN 1 ELSE 0) + CountType(Tail(sent), type)

\* An entry of pipeline.Run, which never sets Fields.
Unparsed(e) == WithFields(e, NilFields)
UnparsedAll(s) == [i \in DOMAIN s |-> Unparsed(s[i])]

\* An entry of tui.Run without its Fields.
DropFields(e) == [seq |-> e.seq, msg |-> e.msg, level |-> e.level]
DropFieldsAll(s) == [i \in DOMAIN s |-> DropFields(s[i])]

\* Both consumers have processed the same entries, each of them fully.
BothProcessed == NoWriteFailed /\ pc = "streaming" /\ tui.stats.totalLines = srcSeq

SameStats == tui.stats = stats

C27_SpikeAndAlertSent ==
    /\ CountType(tui.sent, "spike") = tui.spikeReports
    /\ CountType(tui.sent, "alert") = tui.alertReports


\* The Record calls so far that fell into second sec.
RECURSIVE RecordsInSecond(_, _)
RecordsInSecond(log, sec) ==
    IF Len(log) = 0 THEN 0
    ELSE (IF log[1].sec = sec THEN 1 ELSE 0) + RecordsInSecond(Tail(log), sec)

\* C31 as stated: LatestSecondRate returns the count of the most recent
\* bucket the detector holds, and 0 only when it holds no bucket.
C31_LatestBucketCount ==
    rdLast.op = "LatestSecondRate" =>
        rdLast.result = IF Len(rd.buckets) = 0 THEN 0 ELSE rd.buckets[Len(rd.buckets)]

\* C31 (amended): LatestSecondRate returns the number of events recorded
\* in the second of the call (the current second); it returns 0 when no
\* event was recorded in that second, whether or not the detector still
\* holds buckets of earlier seconds.
C31_CountOfCurrentSecond ==
    rdLast.op = "LatestSecondRate" =>
        rdLast.result = RecordsInSecond(rdLog, Truncate(rdLast.at))

C31_Witness ==
    /\ rdLast.op = "LatestSecondRate"
    /\ rdLast.result = 2
    /\ Len(rd.buckets) = 2


\* The history of a context buffer: max(before+1, 1) slots, the most
\* recent entries seen in them (entry j of the feed in slot (j-1) % len).
HistoryHoldsMostRecent ==
    /\ BufLen(cb) = Max(cb.beforeN + 1, 1)
    /\ cb.ringPos = Len(cbFed)
    /\ \A j \in 1..Len(cbFed) :
          j > Len(cbFed) - BufLen(cb) => cb.ringBuf[(j - 1) % BufLen(cb)] = cbFed[j]

ResetOnMatch == (Len(cbFed) > 0 /\ cbLast.isMatch) => cb.afterCount = cb.afterN

\* C32 as stated: 0 <= afterCount <= max(after, 0) in every state, the
\* counter equals after right after a matching entry, and the history
\* holds max(before+1, 1) slots with the most recent entries seen.
C32_AfterCounterInRange ==
    /\ 0 <= cb.afterCount /\ cb.afterCount <= Max(cb.afterN, 0)
    /\ ResetOnMatch
    /\ HistoryHoldsMostRecent

\* C32 (amended): the counter lies between min(after, 0) and max(after, 0)
\* (a negative after is stored as it is on a match), it equals after right
\* after a matching entry, and the history holds max(before+1, 1) slots
\* with the most recent entries seen.
C32_AfterCounterBetweenZeroAndAfter ==
    /\ Min(cb.afterN, 0) <= cb.afterCount /\ cb.afterCount <= Max(cb.afterN, 0)
    /\ ResetOnMatch
    /\ HistoryHoldsMostRecent

C32_Witness ==
    /\ cb.afterN = 2 /\ cb.beforeN = 1
    /\ Len(cbFed) = 4
    /\ cbLast.isMatch /\ cbLast.afterBefore = 1
    /\ cb.afterCount = 2


----------------------------------------------------------------------------
(* Properties of buffer.Get and Put (checked under SpecPool).              *)

\* C33: the entry Get returns has every mutable field in its reset state
\* whatever was Put before: an empty non-nil field map, zero-length raw
\* bytes, sequence 0, level unknown, empty message, stream and source, and
\* no timestamp of its previous use.
C33_GetReturnsResetEntry ==
    pool.op = "Get" =>
        /\ pool.e.fields = MakeFields
        /\ pool.e.raw = <<>>
        /\ pool.e.seq = 0
        /\ pool.e.level = LevelUnknown
        /\ pool.e.msg = <<>>
        /\ pool.e.stream = "" /\ pool.e.source = ""
        /\ pool.e.timestamp = 0


----------------------------------------------------------------------------
(* Properties of source.FileSource (checked under SpecFile).               *)

\* The messages the adapter has emitted: received, or still in the channel.
Emitted == Msgs(recvd) \o Msgs(ch.buf)

\* Without follow and without cancellation the channel is closed once every
\* line the file held has been emitted once, in file order.
FileEmitsAllThenCloses ==
    (~srcSt.follow /\ ch.closed /\ ~srcSt.ctxDone) =>
        Emitted = srcSt.fileLines

\* With follow the channel is closed only after the cancellation.
FollowClosesOnlyOnCancel == (srcSt.follow /\ ch.closed) => srcSt.ctxDone

\* With follow what has been emitted is the lines of the file, in order.
FollowEmitsLinesInOrder ==
    (srcSt.follow /\ srcSt.writing = <<>>) => IsPrefix(Emitted, srcSt.fileLines)

\* C34: without follow the file adapter emits every line of the file once,
\* in file order, and then closes its channel; with follow it does not
\* close the channel at the end of the file, emits the appended lines in
\* order, and closes only after cancellation.
C34_FileLinesInOrderThenClose ==
    /\ FileEmitsAllThenCloses
    /\ FollowClosesOnlyOnCancel
    /\ FollowEmitsLinesInOrder


----------------------------------------------------------------------------
(* Properties of entry.ParseLevel (checked under SpecParse).               *)

\* C35: for every level name and every upper/lower-case variant of its
\* letters ParseLevel returns the level of the upper-case spelling, which
\* is a known level.
C35_ParseLevelCaseInsensitive ==
    pl.called =>
        /\ pl.level = ParseLevel(UpperCase(pl.s))
        /\ pl.level # LevelUnknown


\* C36: in every state of a pipeline run, in plain filter mode and in
\* context mode, Stats.Matched() <= Stats.Total(), so that the match rate
\* of Summary is at most 100%.
C36_MatchedAtMostTotal == stats.matchedLines <= stats.totalLines

\* C37: with a ring buffer configured, after every processed entry
\* Ring.Len() + Ring.Dropped() equals Stats.Total(): every entry received
\* is pushed once, before filtering, whether it matches or not.
C37_RingCountsEveryEntry ==
    cfg.hasRing =>
        /\ RingLen(ring) + Dropped(ring) = stats.totalLines
        /\ ringPushed = [i \in 1..Len(srcLog) |-> Detected(srcLog[i])]

C37_Witness ==
    /\ cfg.hasRing /\ cfg.hasFilters /\ ~cfg.hasContext
    /\ stats.totalLines = 3
    /\ stats.matchedLines = 1
    /\ Dropped(ring) = 1 /\ RingLen(ring) = 2


----------------------------------------------------------------------------
(* Properties of tui.Model (checked under SpecModel).                      *)

\* C38: after any sequence of key presses and log messages
\* 0 <= scrollPos <= max(len(logs) - 1, 0), and getVisibleLogs never reads
\* an index outside logs.
C38_ScrollPosInRange ==
    /\ 0 <= model.scrollPos
    /\ model.scrollPos <= Max(Len(model.logs) - 1, 0)
    /\ model.pc # "panicked"

\* The lines that have been displayed: those that arrived and are not
\* waiting in the pause queue.
Displayed == SubSeq(model.arrived, 1, Len(model.arrived) - Len(model.pauseQueue))

\* C39: pausing loses and reorders nothing: the lines that arrived while
\* paused are queued in arrival order (and appended in that order on
\* resume), logs is the most recent min(n, maxLines) displayed lines in
\* arrival order, and len(logs) <= maxLines.
C39_PauseKeepsLinesInOrder ==
    /\ model.pauseQueue = LastOf(model.arrived, Len(model.pauseQueue))
    /\ ~model.paused => model.pauseQueue = <<>>
    /\ model.logs = LastOf(Displayed, Min(Len(Displayed), model.maxLines))
    /\ Len(model.logs) <= model.maxLines

C39_Witness ==
    /\ ~model.paused
    /\ model.flushed = 3
    /\ Len(model.arrived) = 4
    /\ Len(model.logs) = model.maxLines
    /\ model.logs = LastOf(model.arrived, 2)


\* The source has run to exhaustion without cancellation: its channel is
\* closed and drained.
Exhausted == ch.closed /\ ch.buf = <<>> /\ ~srcSt.ctxDone

\* C40: for every adapter run to exhaustion without cancellation, the
\* sequence numbers of the entries received are exactly 1..n, with no
\* duplicate and no gap, in any interleaving of its readers.
C40_SeqsAreOneToN ==
    Exhausted =>
        /\ {recvd[i].seq : i \in 1..Len(recvd)} = 1..Len(recvd)
        /\ \A i, j \in 1..Len(recvd) : recvd[i].seq = recvd[j].seq => i = j
        /\ srcSt.seq = Len(recvd)

C40_Witness ==
    /\ Exhausted
    /\ srcSt.kind = "exec"
    /\ Len(recvd) = 4
    /\ recvd[1].seq = 2 /\ recvd[2].seq = 1

====
